---- MODULE Spec2Model ----
(***************************************************************************)
(* A model of the wail package: the SMTP client (client.go: NewClient,     *)
(* Dial, Close, Send), the LOGIN mechanism, and the envelope that Send     *)
(* renders (mail.go, mime.go, message.go).  The server and the transport   *)
(* (net, crypto/tls, net/smtp) are the environment: every reply they can   *)
(* give is a nondeterministic choice.                                      *)
(***************************************************************************)
EXTENDS Integers, Sequences, FiniteSets, TLC

VARIABLES cfg, client, orphans, wire, last, dialed, racing, stuck, mail, call, alt, mix

vars == <<cfg, client, orphans, wire, last, dialed, racing, stuck, mail, call, alt,
          mix>>

\* ------------------------------------------------------------------ bounds

\* Open connections the program may have lost every reference to (caps the
\* counter orphans).
MaxOrphans == 1

\* Handshake goroutines that outlive the Dial that started them (caps
\* racing + stuck).
MaxRoutines == 1

\* Addresses in the recipient list of the envelope a caller builds call by
\* call (caps len(m.recipients)).
MaxRecipients == 3

\* ------------------------------------------------------------------ values

\* A nil pointer, a nil interface, a nil error.
Nil == "<nil>"

\* A nil pointer to a struct (*SmtpConfig, *smtp.Client, *Mail).
NilPtr == [nil |-> TRUE]

\* The outcome of a call that panicked instead of returning.
Panic == "panic: runtime error: invalid memory address or nil pointer dereference"

EncryptSSL == "EncryptSSL"

EncryptTLS == "EncryptTLS"

EncryptNone == "EncryptNone"

lineLengthLimit == 76

MaxAddrLen == 254

\* ------------------------------------------------------------------ strings

\* strings.Contains(s, sub)
Contains(s, sub) ==
    \E i \in 1..(Len(s) - Len(sub) + 1) : SubSeq(s, i, i + Len(sub) - 1) = sub

Digits == <<"0", "1", "2", "3", "4", "5", "6", "7", "8", "9">>

IsDigit(ch) == \E d \in 1..10 : Digits[d] = ch

DigitVal(ch) == (CHOOSE d \in 1..10 : Digits[d] = ch) - 1

RECURSIVE AtoiAcc(_, _, _)
AtoiAcc(s, i, acc) ==
    IF i > Len(s) THEN acc
    ELSE AtoiAcc(s, i + 1, acc * 10 + DigitVal(SubSeq(s, i, i)))

\* strconv.Atoi(value): [ok, n]; only unsigned decimal strings are advertised here.
Atoi(s) ==
    IF Len(s) > 0 /\ \A i \in 1..Len(s) : IsDigit(SubSeq(s, i, i))
    THEN [ok |-> TRUE, n |-> AtoiAcc(s, 1, 0)]
    ELSE [ok |-> FALSE, n |-> 0]

\* m[k] = v on a Go map
Put(h, k, v) == [x \in (DOMAIN h) \cup {k} |-> IF x = k THEN v ELSE h[x]]

\* ------------------------------------------------------------------ errors

ErrNoConfig == "wail: smtp config is not provided"

ErrTimeout == "wail: connection timeout"

ErrNoLogin == "wail: sender login is not specified"

ErrNoPassword == "wail: sender password is not specified"

ErrNoAuthMethod == "wail: can't retrieve authentication method"

ErrNotConnected == "wail: connection with the smtp server is not established"

ErrNilMail == "wail: an empty mail object has been provided"

ErrNoRecipients == "wail: no recipients provided to send email"

ErrNoTo == "wail: field 'To' doesn't provided"

ErrUnencrypted == "wail: unencrypted connection"

ErrUnknownCommand == "wail: unknown command from server"

ErrEmptyList == "wail: an empty email address list has been provided"

ErrAddrTooLong == "wail: length of the email address must be less than 254 chars"

ErrBadAddr == "mail: invalid address"

ErrTooLarge(max) ==
    "wail: a max message size (" \o ToString(max)
        \o ") that the server can accept has been exceeded"

ErrReconnect(err) ==
    "wail: an error occured while reconnecting to the server (" \o err \o ")"

\* Errors of the transport and of the server, one per command.
ErrTcp == "dial tcp: connection refused"

ErrGreeting == "smtp: no 220 greeting"

ErrClosedConn == "use of closed network connection"

ErrReply(cmd) == "smtp: " \o cmd \o " failed"

ErrPlainChallenge == "unexpected server challenge"

\* ------------------------------------------------------------------ mime.go

\* Printable ASCII from the space (code 32) to the underscore (code 95).
AsciiLow == " !\"#$%&'()*+,-./0123456789:;<=>?@ABCDEFGHIJKLMNOPQRSTUVWXYZ[\\]^_"

\* Printable ASCII from a (code 97) to the tilde (code 126).
AsciiHigh == "abcdefghijklmnopqrstuvwxyz{|}~"

\* The byte value of a one-character string.
Code(ch) ==
    IF ch = "\r" THEN 13
    ELSE IF ch = "\n" THEN 10
    ELSE IF ch = "\t" THEN 9
    ELSE IF \E i \in 1..Len(AsciiLow) : SubSeq(AsciiLow, i, i) = ch
    THEN 31 + (CHOOSE i \in 1..Len(AsciiLow) : SubSeq(AsciiLow, i, i) = ch)
    ELSE 96 + (CHOOSE i \in 1..Len(AsciiHigh) : SubSeq(AsciiHigh, i, i) = ch)

B64Alphabet == "ABCDEFGHIJKLMNOPQRSTUVWXYZabcdefghijklmnopqrstuvwxyz0123456789+/"

B64Char(n) == SubSeq(B64Alphabet, n + 1, n + 1)

\* base64.StdEncoding.EncodeToString(text)
RECURSIVE StdEncode(_)
StdEncode(text) ==
    IF Len(text) = 0 THEN ""
    ELSE LET b1 == Code(SubSeq(text, 1, 1))
             b2 == IF Len(text) >= 2 THEN Code(SubSeq(text, 2, 2)) ELSE 0
             b3 == IF Len(text) >= 3 THEN Code(SubSeq(text, 3, 3)) ELSE 0
             n  == b1 * 65536 + b2 * 256 + b3
             c1 == B64Char(n \div 262144)
             c2 == B64Char((n \div 4096) % 64)
             c3 == IF Len(text) >= 2 THEN B64Char((n \div 64) % 64) ELSE "="
             c4 == IF Len(text) >= 3 THEN B64Char(n % 64) ELSE "="
         IN  c1 \o c2 \o c3 \o c4
                \o (IF Len(text) > 3 THEN StdEncode(SubSeq(text, 4, Len(text))) ELSE "")

\* split with the end of a chunk one character too far: every chunk but the
\* last has lineLengthLimit + 1 characters and shares one with the next.
RECURSIVE splitInclusive(_)
splitInclusive(s) ==
    IF Len(s) = 0 THEN <<>>
    ELSE IF Len(s) <= lineLengthLimit THEN <<s>>
    ELSE <<SubSeq(s, 1, lineLengthLimit + 1)>>
             \o splitInclusive(SubSeq(s, lineLengthLimit + 1, Len(s)))

\* split(s): consecutive chunks of lineLengthLimit characters
RECURSIVE split(_)
split(s) ==
    IF Len(s) = 0 THEN <<>>
    ELSE IF Len(s) <= lineLengthLimit THEN <<s>>
    ELSE <<SubSeq(s, 1, lineLengthLimit)>> \o split(SubSeq(s, lineLengthLimit + 1, Len(s)))

\* strings.Join(parts, sep)
RECURSIVE Join(_, _)
Join(parts, sep) ==
    IF Len(parts) = 0 THEN ""
    ELSE IF Len(parts) = 1 THEN parts[1]
    ELSE parts[1] \o sep \o Join(Tail(parts), sep)

IsSpace(ch) == ch \in {" ", "\t", "\n", "\r", "\f"}

\* strings.Fields(s): the maximal runs of non-space characters, in order.
\* A run starts at a non-space character that is first or follows a space,
\* and ends before the next space or at the end of s.
Fields(s) ==
    LET n == Len(s)
        sp == {i \in 1..n : IsSpace(SubSeq(s, i, i))}
        starts == {i \in (1..n) \ sp : i = 1 \/ (i - 1) \in sp}
        EndOf(i) == IF \E j \in sp : j > i
                    THEN (CHOOSE j \in sp : j > i /\ \A k \in sp : k > i => j <= k) - 1
                    ELSE n
        Nth(k) == CHOOSE i \in starts : Cardinality({j \in starts : j < i}) = k - 1
    IN  [k \in 1..Cardinality(starts) |-> SubSeq(s, Nth(k), EndOf(Nth(k)))]

RECURSIVE splitHeaderLoop(_, _)
splitHeaderLoop(s, i) ==
    IF i > Len(s) THEN ""
    ELSE (IF Len(s[i]) > lineLengthLimit THEN Join(split(s[i]), "\r\n") ELSE s[i])
            \o "\r\n" \o splitHeaderLoop(s, i + 1)

\* splitHeader without the cut of the CRLF after the last line.
splitHeaderKeepEnd(header) ==
    IF Len(header) = 0 THEN ""
    ELSE LET s == Fields(header) IN
         IF Len(s) = 0 THEN header ELSE splitHeaderLoop(s, 1)

\* splitHeader(header)
splitHeader(header) ==
    IF Len(header) = 0 THEN ""
    ELSE LET s == Fields(header) IN
         IF Len(s) = 0 THEN header
         ELSE LET out == splitHeaderLoop(s, 1) IN SubSeq(out, 1, Len(out) - 2)

\* mime.WordEncoder.Encode on a value of printable ASCII, which needs no encoded word.
WordEncode(charset, value) == value

\* (*mimeBuilder).EncodeHeader
EncodeHeader(mb, value) ==
    IF Len(value) = 0 THEN value
    ELSE LET out == WordEncode(mb.charset, value) IN
         IF Len(out) > lineLengthLimit THEN splitHeader(out) ELSE out

\* base64Encode(text)
base64Encode(text) ==
    LET out == StdEncode(text) IN
    IF Len(out) > lineLengthLimit THEN Join(split(out), "\r\n") ELSE out

\* qpEncode(text): the writer encodes into a buffer that is dropped; the
\* function returns its own copy of the input.
qpEncode(text) == [out |-> text, err |-> Nil]

\* (*mimeBuilder).EncodeBody
EncodeBody(mb, body) ==
    IF mb.encoding = "base64" THEN base64Encode(body)
    ELSE IF mb.encoding = "quoted-printable"
    THEN (IF qpEncode(body).err # Nil THEN body ELSE qpEncode(body).out)
    ELSE ""

\* The loop of makeAddrString with the comma put before an address instead of
\* after it, so that a fold comes between the bracket and the comma.
RECURSIVE makeAddrLoopCommaFirst(_, _, _)
makeAddrLoopCommaFirst(addr, i, sAddr) ==
    IF i > Len(addr) THEN sAddr \o ","
    ELSE LET folded == IF Len(sAddr \o addr[i]) + 3 > lineLengthLimit
                       THEN sAddr \o "\r\n" ELSE sAddr
         IN  makeAddrLoopCommaFirst(addr, i + 1,
                 folded \o (IF i > 1 THEN "," ELSE "") \o "<" \o addr[i] \o ">")

\* makeAddrString(addr), for a non-empty list
RECURSIVE makeAddrLoop(_, _, _)
makeAddrLoop(addr, i, sAddr) ==
    IF i > Len(addr) THEN sAddr
    ELSE LET folded == IF Len(sAddr \o addr[i]) + 3 > lineLengthLimit
                       THEN sAddr \o "\r\n" ELSE sAddr
         IN  makeAddrLoop(addr, i + 1, folded \o "<" \o addr[i] \o ">,")

\* makeAddrString without the cut of the last comma.
makeAddrStringKeepComma(addr) == makeAddrLoop(addr, 1, "")

makeAddrString(addr) ==
    LET sAddr == makeAddrLoop(addr, 1, "") IN SubSeq(sAddr, 1, Len(sAddr) - 1)

\* newMimeBuilder(charset, encoding); contentType starts as its zero value, TextPlain
newMimeBuilder(charset, encoding) ==
    [charset |-> charset, encoding |-> encoding, contentType |-> "text/plain",
     header |-> [k \in {} |-> ""]]

SetFieldSubject(mb, subj) ==
    [mb EXCEPT !.header = Put(@, "subject", EncodeHeader(mb, subj))]

\* A SetFieldFrom that adds the sender to the field it finds.
SetFieldFromAppend(mb, name, addr) ==
    [mb EXCEPT !.header = Put(@, "from",
                               (IF "from" \in DOMAIN mb.header THEN mb.header["from"]
                                ELSE "") \o "<" \o addr \o ">,")]

\* (*mimeBuilder).SetFieldFrom
SetFieldFrom(mb, name, addr) ==
    IF Len(name) = 0
    THEN [mb EXCEPT !.header = Put(@, "from", addr)]
    ELSE [mb EXCEPT !.header =
              Put(@, "from", EncodeHeader(mb, name) \o " <" \o addr \o ">")]

\* A SetFieldTo that adds to the field it finds.
SetFieldToAppend(mb, addr) ==
    IF Len(addr) = 0 THEN mb
    ELSE [mb EXCEPT !.header =
              Put(@, "to", IF "to" \in DOMAIN mb.header
                           THEN mb.header["to"] \o "," \o makeAddrString(addr)
                           ELSE makeAddrString(addr))]

SetFieldTo(mb, addr) ==
    IF Len(addr) = 0 THEN mb
    ELSE [mb EXCEPT !.header = Put(@, "to", makeAddrString(addr))]

SetFieldCc(mb, addr) ==
    IF Len(addr) = 0 THEN mb
    ELSE [mb EXCEPT !.header = Put(@, "cc", makeAddrString(addr))]

SetFieldBcc(mb, addr) ==
    IF Len(addr) = 0 THEN mb
    ELSE [mb EXCEPT !.header = Put(@, "bcc", makeAddrString(addr))]

\* (*TextMessage).GetContent
TextGetContent(msg, mb) ==
    "Content-Type: " \o msg.ctype \o "; charset=" \o mb.charset \o "\r\n"
        \o "Content-Transfer-Encoding: " \o mb.encoding \o "\r\n"
        \o "\r\n"
        \o EncodeBody(mb, msg.text)

\* (*mimeBuilder).SetMessage, for a text message
mbSetMessage(mb, msg) ==
    [mb EXCEPT !.contentType = msg.ctype,
               !.header = Put(@, msg.ctype, TextGetContent(msg, mb))]

\* The header lookup of a Go map: the zero value for an absent key.
Hdr(mb, k) == IF k \in DOMAIN mb.header THEN mb.header[k] ELSE ""

\* An assembly that writes the Bcc line before the Cc line.
AssembleBccFirst(mb, date) ==
    "Date:" \o date \o "\r\n"
        \o "Subject:" \o Hdr(mb, "subject") \o "\r\n"
        \o "From:" \o Hdr(mb, "from") \o "\r\n"
        \o "To:" \o Hdr(mb, "to") \o "\r\n"
        \o (IF "bcc" \in DOMAIN mb.header THEN "Bcc:" \o mb.header["bcc"] \o "\r\n" ELSE "")
        \o (IF "cc" \in DOMAIN mb.header THEN "Cc:" \o mb.header["cc"] \o "\r\n" ELSE "")
        \o "MIME-Version: 1.0\r\n"
        \o (IF mb.contentType \in DOMAIN mb.header
            THEN mb.header[mb.contentType] \o "\r\n" ELSE "")

\* The text GetResultMessage assembles before it checks the size.
Assemble(mb, date) ==
    "Date:" \o date \o "\r\n"
        \o "Subject:" \o Hdr(mb, "subject") \o "\r\n"
        \o "From:" \o Hdr(mb, "from") \o "\r\n"
        \o "To:" \o Hdr(mb, "to") \o "\r\n"
        \o (IF "cc" \in DOMAIN mb.header THEN "Cc:" \o mb.header["cc"] \o "\r\n" ELSE "")
        \o (IF "bcc" \in DOMAIN mb.header THEN "Bcc:" \o mb.header["bcc"] \o "\r\n" ELSE "")
        \o "MIME-Version: 1.0\r\n"
        \o (IF mb.contentType \in DOMAIN mb.header
            THEN mb.header[mb.contentType] \o "\r\n" ELSE "")

\* A size test that also refuses a text of exactly the limit.
TooLargeOrEqual(maxMsgSize, n) == maxMsgSize # 0 /\ n >= maxMsgSize

\* Whether GetResultMessage refuses a text of this length.
TooLarge(maxMsgSize, n) == maxMsgSize # 0 /\ n > maxMsgSize

\* GetResultMessage without its test of the To field.
GetResultMessageAnyTo(mb, maxMsgSize, date) ==
    LET out == Assemble(mb, date) IN
    IF TooLarge(maxMsgSize, Len(out))
    THEN [out |-> Nil, err |-> ErrTooLarge(maxMsgSize)]
    ELSE [out |-> out, err |-> Nil]

\* (*mimeBuilder).GetResultMessage(maxMsgSize): [out, err]
GetResultMessage(mb, maxMsgSize, date) ==
    IF "to" \notin DOMAIN mb.header THEN [out |-> Nil, err |-> ErrNoTo]
    ELSE LET out == Assemble(mb, date) IN
         IF TooLarge(maxMsgSize, Len(out))
         THEN [out |-> Nil, err |-> ErrTooLarge(maxMsgSize)]
         ELSE [out |-> out, err |-> Nil]

\* ------------------------------------------------------------------ mail.go

AtextChars == "abcdefghijklmnopqrstuvwxyzABCDEFGHIJKLMNOPQRSTUVWXYZ0123456789!#$%&'*+-/=?^_{|}~"

Atext == {SubSeq(AtextChars, i, i) : i \in 1..Len(AtextChars)}

IsAtext(ch) == ch \in Atext

\* A dot-atom: atoms of atext joined by single dots.
IsDotAtom(s) ==
    /\ Len(s) > 0
    /\ \A i \in 1..Len(s) : IsAtext(SubSeq(s, i, i)) \/ SubSeq(s, i, i) = "."
    /\ SubSeq(s, 1, 1) # "."
    /\ SubSeq(s, Len(s), Len(s)) # "."
    /\ ~Contains(s, "..")

\* An addr-spec local@domain (quoted local parts and domain literals left out).
IsAddrSpec(s) ==
    \E i \in 1..Len(s) :
        /\ SubSeq(s, i, i) = "@"
        /\ IsDotAtom(SubSeq(s, 1, i - 1))
        /\ IsDotAtom(SubSeq(s, i + 1, Len(s)))

\* A display name: words of atext separated by spaces.
IsPhrase(s) ==
    /\ \A i \in 1..Len(s) : IsAtext(SubSeq(s, i, i)) \/ SubSeq(s, i, i) \in {" ", "."}
    /\ \E i \in 1..Len(s) : IsAtext(SubSeq(s, i, i))

\* The white space net/mail skips before an address and after it.
RECURSIVE skipSpace(_)
skipSpace(s) ==
    IF Len(s) > 0 /\ SubSeq(s, 1, 1) \in {" ", "\t"}
    THEN skipSpace(SubSeq(s, 2, Len(s))) ELSE s

RECURSIVE skipSpaceRight(_)
skipSpaceRight(s) ==
    IF Len(s) > 0 /\ SubSeq(s, Len(s), Len(s)) \in {" ", "\t"}
    THEN skipSpaceRight(SubSeq(s, 1, Len(s) - 1)) ELSE s

\* net/mail.ParseAddress accepts "local@domain", "<local@domain>" and
\* "Display Name <local@domain>", each with white space around it.
ParseAddressOk(s) ==
    LET t == skipSpaceRight(skipSpace(s)) IN
    \/ IsAddrSpec(t)
    \/ \E i \in 1..Len(t) :
          /\ SubSeq(t, i, i) = "<"
          /\ SubSeq(t, Len(t), Len(t)) = ">"
          /\ IsAddrSpec(SubSeq(t, i + 1, Len(t) - 1))
          /\ (i = 1 \/ IsPhrase(SubSeq(t, 1, i - 1)))

\* The error of the first address the loop of validateAndAppendEmails refuses.
RECURSIVE validateLoop(_, _)
validateLoop(emails, i) ==
    IF i > Len(emails) THEN Nil
    ELSE IF Len(emails[i]) > MaxAddrLen THEN ErrAddrTooLong
    ELSE IF ~ParseAddressOk(emails[i]) THEN ErrBadAddr
    ELSE validateLoop(emails, i + 1)

\* A validateAndAppendEmails that appends each address as soon as it has
\* accepted it.
validateAndAppendEach(m, emails) ==
    IF Len(emails) = 0 THEN [m |-> m, err |-> ErrEmptyList]
    ELSE LET err == validateLoop(emails, 1)
             bad == {i \in DOMAIN emails : validateLoop(<<emails[i]>>, 1) # Nil}
             n   == IF bad = {} THEN Len(emails)
                    ELSE (CHOOSE i \in bad : \A j \in bad : i <= j) - 1
         IN  [m |-> [m EXCEPT !.recipients = @ \o SubSeq(emails, 1, n)], err |-> err]

\* (*Mail).validateAndAppendEmails: [m, err]
validateAndAppendEmails(m, emails) ==
    IF Len(emails) = 0 THEN [m |-> m, err |-> ErrEmptyList]
    ELSE LET err == validateLoop(emails, 1) IN
         IF err # Nil THEN [m |-> m, err |-> err]
         ELSE [m |-> [m EXCEPT !.recipients = @ \o emails], err |-> Nil]

\* NewMail(cfg): cfg is NilPtr or [Charset, Encoding], "" for an unset field
NewMail(mcfg) ==
    LET c == IF mcfg # NilPtr
             THEN [Charset  |-> IF mcfg.Charset = "" THEN "UTF-8" ELSE mcfg.Charset,
                   Encoding |-> IF mcfg.Encoding = "" THEN "quoted-printable"
                                ELSE mcfg.Encoding]
             ELSE [Charset |-> "UTF-8", Encoding |-> "base64"]
    IN  [cfg |-> c, mb |-> newMimeBuilder(c.Charset, c.Encoding), recipients |-> <<>>]

\* (*Mail).SetSubject
SetSubject(m, subj) == [m EXCEPT !.mb = SetFieldSubject(@, subj)]

\* (*Mail).To: [m, err]
To(m, emails) ==
    LET r == validateAndAppendEmails(m, emails) IN
    IF r.err # Nil THEN r
    ELSE [m |-> [r.m EXCEPT !.mb = SetFieldTo(@, emails)], err |-> Nil]

\* (*Mail).CopyTo: [m, err]
CopyTo(m, emails) ==
    LET r == validateAndAppendEmails(m, emails) IN
    IF r.err # Nil THEN r
    ELSE [m |-> [r.m EXCEPT !.mb = SetFieldCc(@, emails)], err |-> Nil]

\* (*Mail).BlindCopyTo: [m, err]
BlindCopyTo(m, emails) ==
    LET r == validateAndAppendEmails(m, emails) IN
    IF r.err # Nil THEN r
    ELSE [m |-> [r.m EXCEPT !.mb = SetFieldBcc(@, emails)], err |-> Nil]

\* (*Mail).SetMessage
SetMessage(m, msg) == [m EXCEPT !.mb = mbSetMessage(@, msg)]

\* (*TextMessage).Set on NewTextMessage()
TextMessage(ctype, text) == [ctype |-> ctype, text |-> text]

\* NewMultipartAltMessage(): no part yet
NewMultipartAltMessage == [msg |-> <<>>]

\* boundary: the first half of the hex SHA-224 of the fixed seed
boundary == "be40bfe9d8f84c9e8c90e4a95131"

middleBound == "--" \o boundary \o "\r\n"

endBound == "--" \o boundary \o "--"

\* NewAttachment() and (*Attachment).SetAsBinary(name, content)
SetAsBinary(name, content) == [name |-> name, content |-> content]

\* (*Attachment).GetContent
AttachGetContent(a, mb) ==
    "Content-Type: application/octet-stream" \o "\r\n"
        \o "Content-Disposition: attachment; filename=" \o a.name \o "\r\n"
        \o "Content-Transfer-Encoding: " \o mb.encoding \o "\r\n"
        \o "\r\n"
        \o EncodeBody(mb, a.content)

\* NewMultipartMixedMessage(): the zero text message (TextPlain, no text) and
\* no attachment
NewMultipartMixedMessage == [text |-> [ctype |-> "text/plain", text |-> ""],
                             attachments |-> <<>>]

\* (*MultipartMixedMessage).SetText
SetText(m, ctype, text) == [m EXCEPT !.text = [ctype |-> ctype, text |-> text]]

\* (*MultipartMixedMessage).AddAttachment
AddAttachment(m, attach) == [m EXCEPT !.attachments = Append(@, attach)]

\* The loop of GetContent over the attachments taken from the last one down:
\* the parts come out in the reverse of the order they were added.
RECURSIVE MixPartsReversed(_, _, _)
MixPartsReversed(att, i, mb) ==
    IF i > Len(att) THEN ""
    ELSE MixPartsReversed(att, i + 1, mb) \o middleBound \o AttachGetContent(att[i], mb) \o "\r\n" \o "\r\n"

\* The loop of GetContent over m.attachments, from attachment i on.
RECURSIVE MixParts(_, _, _)
MixParts(att, i, mb) ==
    IF i > Len(att) THEN ""
    ELSE middleBound \o AttachGetContent(att[i], mb) \o "\r\n" \o "\r\n"
             \o MixParts(att, i + 1, mb)

\* (*MultipartMixedMessage).GetContent
MixGetContent(m, mb) ==
    "Content-Type: multipart/mixed; boundary=" \o boundary \o "\r\n"
        \o "\r\n"
        \o middleBound \o TextGetContent(m.text, mb) \o "\r\n" \o "\r\n"
        \o MixParts(m.attachments, 1, mb)
        \o endBound

\* (*Mail).SetMessage with a *MultipartMixedMessage, through
\* (*mimeBuilder).SetMessage
SetMessageMix(m, x) ==
    [m EXCEPT !.mb.contentType = "multipart/mixed",
              !.mb.header = Put(@, "multipart/mixed", MixGetContent(x, m.mb))]

\* (*MultipartAltMessage).SetPlainText
SetPlainText(m, text, order) ==
    [m EXCEPT !.msg = Append(@, [text |-> TextMessage("text/plain", text),
                                 order |-> order])]

\* (*MultipartAltMessage).SetHtmlText
SetHtmlText(m, text, order) ==
    [m EXCEPT !.msg = Append(@, [text |-> TextMessage("text/html", text),
                                 order |-> order])]

\* A sort that ignores the insertion order of parts with equal order: a part
\* goes before the parts already placed whose order is not smaller.
InsertBeforeEqual(sorted, x) ==
    LET k == Cardinality({i \in DOMAIN sorted : sorted[i].order < x.order})
    IN  SubSeq(sorted, 1, k) \o <<x>> \o SubSeq(sorted, k + 1, Len(sorted))

\* One step of sort.SliceStable with the less function of GetContent: x goes
\* after every part placed so far whose order is not greater.
InsertByOrder(sorted, x) ==
    LET k == Cardinality({i \in DOMAIN sorted : sorted[i].order <= x.order})
    IN  SubSeq(sorted, 1, k) \o <<x>> \o SubSeq(sorted, k + 1, Len(sorted))

\* sort.SliceStable(m.msg, less by order)
RECURSIVE SliceStable(_)
SliceStable(msg) ==
    IF msg = <<>> THEN <<>>
    ELSE InsertByOrder(SliceStable(SubSeq(msg, 1, Len(msg) - 1)), msg[Len(msg)])

\* The loop of GetContent over the sorted parts, from part i on.
RECURSIVE AltParts(_, _, _)
AltParts(msg, i, mb) ==
    IF i > Len(msg) THEN ""
    ELSE middleBound \o TextGetContent(msg[i].text, mb) \o "\r\n" \o "\r\n"
             \o AltParts(msg, i + 1, mb)

\* (*MultipartAltMessage).GetContent: sorts m.msg in place, then renders it.
\* m is the message afterwards, content the text returned.
AltGetContent(m, mb) ==
    LET sorted == SliceStable(m.msg) IN
    [m |-> [m EXCEPT !.msg = sorted],
     content |-> "Content-Type: multipart/alternative; boundary=" \o boundary \o "\r\n"
                     \o "\r\n"
                     \o AltParts(sorted, 1, mb)
                     \o endBound]

\* (*mimeBuilder).SetMessage, for a multipart/alternative message
mbSetMessageAlt(mb, content) ==
    [mb EXCEPT !.contentType = "multipart/alternative",
               !.header = Put(@, "multipart/alternative", content)]

\* (*Mail).SetMessage with a *MultipartAltMessage: the envelope and the
\* message object afterwards
SetMessageAlt(m, a) ==
    LET r == AltGetContent(a, m.mb) IN
    [m |-> [m EXCEPT !.mb = mbSetMessageAlt(@, r.content)], alt |-> r.m]

\* ------------------------------------------------------------------ envelopes

\* The envelopes a caller hands to Send, each built with the calls above.
\* A fresh envelope: no recipient, no To field.
MailFresh == NewMail(NilPtr)

\* The envelope of TestSend: a subject, one To address, a plain text.
MailOne ==
    SetMessage(To(SetSubject(NewMail(NilPtr), "Hi"), <<"example@example.com">>).m,
               TextMessage("text/plain", "Hello, World"))

\* Two To addresses, a copy, and a longer text.
MailLong ==
    SetMessage(
        CopyTo(To(SetSubject(NewMail(NilPtr), "Report"),
                  <<"example1@example.com", "example2@example.com">>).m,
               <<"example3@example.com">>).m,
        TextMessage("text/html",
                    "<p>Hello, World. This is the long version of the message.</p>"))

\* A copy recipient only: the recipient list is filled, the To field is not.
MailCcOnly ==
    SetMessage(CopyTo(SetSubject(NewMail(NilPtr), "Hi"), <<"example3@example.com">>).m,
               TextMessage("text/plain", "Hello, World"))

\* The envelopes by name; "nil" names the nil *Mail.  A call that returned
\* before it read its envelope is recorded with "some" for any of the others.
MailNames == {"nil", "fresh", "one", "long", "cc only"}

MailOf(name) ==
    IF name = "fresh" THEN MailFresh
    ELSE IF name = "one" THEN MailOne
    ELSE IF name = "long" THEN MailLong
    ELSE IF name = "cc only" THEN MailCcOnly
    ELSE NilPtr

\* time.Now().Format(time.RFC1123Z) at the moment of a Send
Clock == {"Wed, 04 Nov 2026 18:56:00 +0000"}

\* ------------------------------------------------------------------ net/smtp

\* The running program as the operations thread it along:
\*   cfg     the *SmtpConfig, NilPtr when NewClient was given none;
\*   client  the stored *smtp.Client, NilPtr or [open, tls, hello, authed, txn]:
\*           its socket is open, its channel is encrypted (c.tls), the result of
\*           its EHLO ("none", "ok", "failed"), and on the server's side whether
\*           the session is authenticated and a mail transaction is open;
\*   orphans the open connections no variable of the program refers to any more;
\*   racing  the goroutines still inside smtp.NewClient after their Dial
\*           returned on the timer;
\*   wire    what the current call did on the transport, in order, each
\*           [gen, cmd, arg, tls, live, ok]: gen is 0 for the client stored when
\*           the call began and 1 for the connection this call dialed; tls and
\*           live tell whether the channel was encrypted and open at that
\*           moment; ok is FALSE when the step failed (the server refused it or
\*           the transport broke);
\*   gen     the generation of the stored client.

\* A client whose connection was just closed: the server's session
\* (authenticated, open transaction) is gone with it.
Closed(k) == [k EXCEPT !.open = FALSE, !.authed = FALSE, !.txn = FALSE]

\* A command of the stored client that got the reply it expects.
Issue(st, cmd, arg) ==
    [st EXCEPT !.wire = Append(@, [gen |-> st.gen, cmd |-> cmd, arg |-> arg,
                                   tls |-> st.client.tls,
                                   live |-> st.client.open, ok |-> TRUE])]

\* A command of the stored client that failed.
Refused(st, cmd, arg) ==
    [st EXCEPT !.wire = Append(@, [gen |-> st.gen, cmd |-> cmd, arg |-> arg,
                                   tls |-> st.client.tls,
                                   live |-> st.client.open, ok |-> FALSE])]

\* (*smtp.Client).Quit: the cached EHLO error comes first, then QUIT, then
\* the connection is closed.  A set of [st, err].
smtpQuit(st) ==
    IF st.client.hello = "failed" THEN {[st |-> st, err |-> ErrReply("EHLO")]}
    ELSE IF ~st.client.open
    THEN {[st |-> Refused(st, "QUIT", ""), err |-> ErrClosedConn]}
    ELSE {[st |-> [Issue(st, "QUIT", "") EXCEPT !.client = Closed(@)], err |-> Nil],
          [st |-> Refused(st, "QUIT", ""), err |-> ErrReply("QUIT")]}

\* c.Quit() with its result dropped: the states it can leave.
AfterQuit(st) == {o.st : o \in smtpQuit(st)}

\* (*smtp.Client).Noop
smtpNoop(st) ==
    IF st.client.hello = "failed" THEN {[st |-> st, err |-> ErrReply("EHLO")]}
    ELSE IF ~st.client.open
    THEN {[st |-> Refused(st, "NOOP", ""), err |-> ErrClosedConn]}
    ELSE {[st |-> Issue(st, "NOOP", ""), err |-> Nil],
          [st |-> Refused(st, "NOOP", ""), err |-> ErrReply("NOOP")]}

\* (*smtp.Client).Mail(from)
smtpMail(st, from) ==
    IF st.client.hello = "failed" THEN {[st |-> st, err |-> ErrReply("EHLO")]}
    ELSE IF ~st.client.open
    THEN {[st |-> Refused(st, "MAIL FROM", from), err |-> ErrClosedConn]}
    ELSE {[st |-> [Issue(st, "MAIL FROM", from) EXCEPT !.client.txn = TRUE],
           err |-> Nil],
          [st |-> Refused(st, "MAIL FROM", from), err |-> ErrReply("MAIL")]}

\* (*smtp.Client).Rcpt(to)
smtpRcpt(st, to) ==
    IF ~st.client.open
    THEN {[st |-> Refused(st, "RCPT TO", to), err |-> ErrClosedConn]}
    ELSE {[st |-> Issue(st, "RCPT TO", to), err |-> Nil],
          [st |-> Refused(st, "RCPT TO", to), err |-> ErrReply("RCPT")]}

\* (*smtp.Client).Data
smtpData(st) ==
    IF ~st.client.open
    THEN {[st |-> Refused(st, "DATA", ""), err |-> ErrClosedConn]}
    ELSE {[st |-> Issue(st, "DATA", ""), err |-> Nil],
          [st |-> Refused(st, "DATA", ""), err |-> ErrReply("DATA")]}

\* w.Write(header) on the writer Data returned
dataWrite(st, bytes) ==
    {[st |-> Issue(st, "BYTES", bytes), err |-> Nil],
     [st |-> Refused(st, "BYTES", bytes), err |-> ErrReply("write")]}

\* w.Close(): the terminating dot and the server's reply to the message
dataClose(st) ==
    {[st |-> [Issue(st, ".", "") EXCEPT !.client.txn = FALSE], err |-> Nil],
     [st |-> Refused(st, ".", ""), err |-> ErrReply("data close")]}

\* ------------------------------------------------------------------ auth

\* The replies of a server to AUTH <mech> and to each response: 334 asks for
\* more, 235 accepts, 535 refuses; a script that runs out is a broken transport.
AuthScripts(mech) ==
    IF mech = "LOGIN"
    THEN { <<[code |-> 334, msg |-> "Username:"], [code |-> 334, msg |-> "Password:"],
             [code |-> 235, msg |-> ""]>>,
           <<[code |-> 334, msg |-> "Username:"], [code |-> 334, msg |-> "Password:"],
             [code |-> 535, msg |-> ""]>>,
           <<[code |-> 334, msg |-> "Hello"]>>,
           <<>> }
    ELSE IF mech = "CRAM-MD5"
    THEN { <<[code |-> 334, msg |-> "<1896.697170952@example.com>"],
             [code |-> 235, msg |-> ""]>>,
           <<[code |-> 334, msg |-> "<1896.697170952@example.com>"],
             [code |-> 535, msg |-> ""]>>,
           <<>> }
    ELSE { <<[code |-> 235, msg |-> ""]>>,
           <<[code |-> 535, msg |-> ""]>>,
           <<[code |-> 334, msg |-> "Hello"]>> }

\* authLogin.Start without the test of server.TLS.
authLoginStartAnyChannel(tls) == [mech |-> "LOGIN", resp |-> Nil, err |-> Nil]

\* (*authLogin).Start: [mech, resp, err]
authLoginStart(tls) ==
    IF ~tls THEN [mech |-> "", resp |-> Nil, err |-> ErrUnencrypted]
    ELSE [mech |-> "LOGIN", resp |-> Nil, err |-> Nil]

\* authLogin.Next with its first two cases exchanged.
authLoginNextPasswordFirst(username, password, fromServer, more) ==
    IF more
    THEN IF Contains(fromServer, "Password") THEN [resp |-> password, err |-> Nil]
         ELSE IF Contains(fromServer, "Username") THEN [resp |-> username, err |-> Nil]
         ELSE [resp |-> Nil, err |-> ErrUnknownCommand]
    ELSE [resp |-> Nil, err |-> Nil]

\* (*authLogin).Next: [resp, err]
authLoginNext(username, password, fromServer, more) ==
    IF more
    THEN IF Contains(fromServer, "Username") THEN [resp |-> username, err |-> Nil]
         ELSE IF Contains(fromServer, "Password") THEN [resp |-> password, err |-> Nil]
         ELSE [resp |-> Nil, err |-> ErrUnknownCommand]
    ELSE [resp |-> Nil, err |-> Nil]

\* Start of the mechanism LoginAuth, smtp.CRAMMD5Auth or smtp.PlainAuth built.
\* PlainAuth refuses an unencrypted connection to a host that is not localhost.
authStart(mech, tls, sender) ==
    IF mech = "LOGIN" THEN authLoginStart(tls)
    ELSE IF mech = "CRAM-MD5" THEN [mech |-> "CRAM-MD5", resp |-> Nil, err |-> Nil]
    ELSE IF ~tls THEN [mech |-> "", resp |-> Nil, err |-> "unencrypted connection"]
    ELSE [mech |-> "PLAIN", resp |-> "/" \o sender.Login \o "/" \o sender.Password,
          err |-> Nil]

\* Next of the same mechanism.
authNext(mech, sender, fromServer, more) ==
    IF mech = "LOGIN" THEN authLoginNext(sender.Login, sender.Password, fromServer, more)
    ELSE IF mech = "CRAM-MD5"
    THEN (IF more
          THEN [resp |-> sender.Login \o " hmac-md5(" \o fromServer \o ")", err |-> Nil]
          ELSE [resp |-> Nil, err |-> Nil])
    ELSE (IF more THEN [resp |-> Nil, err |-> ErrPlainChallenge]
          ELSE [resp |-> Nil, err |-> Nil])

\* The loop of (*smtp.Client).Auth: the command cmd (AUTH, or a response) is
\* sent and script[i] is the server's reply to it.
RECURSIVE AuthLoop(_, _, _, _, _, _)
AuthLoop(st, mech, script, i, cmd, arg) ==
    IF i > Len(script) THEN {[st |-> Refused(st, cmd, arg), err |-> ErrReply("AUTH")]}
    ELSE LET r  == script[i]
             s1 == IF r.code \in {334, 235} THEN Issue(st, cmd, arg)
                   ELSE Refused(st, cmd, arg)
             nx == IF r.code = 334 THEN authNext(mech, st.cfg, r.msg, TRUE)
                   ELSE IF r.code = 235 THEN authNext(mech, st.cfg, r.msg, FALSE)
                   ELSE [resp |-> Nil, err |-> ErrReply("AUTH")]
         IN  IF nx.err # Nil
             THEN {[st |-> q, err |-> nx.err] : q \in AfterQuit(Issue(s1, "*", ""))}
             ELSE IF nx.resp = Nil
             THEN {[st |-> [s1 EXCEPT !.client.authed = TRUE], err |-> Nil]}
             ELSE AuthLoop(s1, mech, script, i + 1, "RESP", nx.resp)

\* (*smtp.Client).Auth(a): a nil a is dereferenced by a.Start.
smtpAuth(st, mech) ==
    IF mech = Nil THEN {[st |-> st, err |-> Panic]}
    ELSE LET s0 == authStart(mech, st.client.tls, st.cfg) IN
         IF s0.err # Nil THEN {[st |-> q, err |-> s0.err] : q \in AfterQuit(st)}
         ELSE UNION {AuthLoop(st, mech, script, 1, "AUTH " \o s0.mech,
                              IF s0.resp = Nil THEN "" ELSE s0.resp)
                     : script \in AuthScripts(mech)}

\* ------------------------------------------------------------------ Dial

\* What the server may advertise in its EHLO reply.  Nil: the extension is absent.
SizeExt == {Nil, "abc", "250"}

AuthExt ==
    {Nil, "PLAIN LOGIN CRAM-MD5", "XOAUTH2 CRAM-MD5", "PLAIN XOAUTH2", "PLAIN",
     "XOAUTH2", "GSSAPI NTLM", "PLAIN-CLIENTTOKEN OAUTHBEARER"}

\* The outcome of Dial: the program state it leaves, the error it returned
\* (Nil, an error, or Panic), the mechanism it selected ("" when it selected
\* none) and the AUTH list it read from the server: Nil when the server
\* advertised no AUTH, "-" when Dial did not get to read it.  tlsExt and
\* sizeExt tell what Dial read in the accepted EHLO reply: whether STARTTLS
\* was advertised ("yes", "no"; "-" when Dial did not look for it) and the
\* value of SIZE (Nil when absent); "-" when EHLO was not accepted.
Ret(st, err, mech) ==
    [st |-> st, err |-> err, mech |-> mech, adv |-> "-", tlsExt |-> "-",
     sizeExt |-> "-"]

\* The switch with the PLAIN case moved above the XOAUTH2 case.
SelectAuthPlainFirst(authMethod) ==
    IF Contains(authMethod, "LOGIN") THEN "LOGIN"
    ELSE IF Contains(authMethod, "CRAM-MD5") THEN "CRAM-MD5"
    ELSE IF Contains(authMethod, "PLAIN") THEN "PLAIN"
    ELSE Nil

\* The switch over the AUTH list: the mechanism built, Nil when auth stays nil.
SelectAuth(authMethod) ==
    IF Contains(authMethod, "LOGIN") THEN "LOGIN"
    ELSE IF Contains(authMethod, "CRAM-MD5") THEN "CRAM-MD5"
    ELSE IF Contains(authMethod, "XOAUTH2") THEN Nil
    ELSE IF Contains(authMethod, "PLAIN") THEN "PLAIN"
    ELSE Nil

\* The credential checks without the one of the password.
CredentialsErrorLoginOnly(sender) ==
    IF sender.Login = "" THEN "wail: sender login is not specified" ELSE Nil

\* The credential checks that open the NeedAuth branch: the error, or Nil.
CredentialsError(sender) ==
    IF sender.Login = "" THEN ErrNoLogin
    ELSE IF sender.Password = "" THEN ErrNoPassword
    ELSE Nil

\* Whether the AUTH branch returns "can't retrieve authentication method":
\* only inside `if ok`, when the switch left auth nil.
NoMethodError(ok, auth) == ok /\ auth = Nil

\* c.Auth(auth) with its error dropped: Dial goes on to return nil.
DialAuthErrorDropped(st, auth) ==
    {Ret(o.st, IF o.err = Panic THEN Panic ELSE Nil, IF auth = Nil THEN "" ELSE auth)
     : o \in smtpAuth(st, auth)}

\* c.Auth(auth) and the error path after it.
DialAuth(st, auth) ==
    UNION {IF o.err = Nil \/ o.err = Panic
           THEN {Ret(o.st, o.err, IF auth = Nil THEN "" ELSE auth)}
           ELSE {Ret(q, o.err, auth) : q \in AfterQuit(o.st)}
           : o \in smtpAuth(st, auth)}

\* The NeedAuth branch.
DialAuthenticate(st) ==
    IF ~st.cfg.NeedAuth THEN {Ret(st, Nil, "")}
    ELSE IF CredentialsError(st.cfg) # Nil THEN {Ret(st, CredentialsError(st.cfg), "")}
    ELSE UNION {LET ok   == ext # Nil
                    auth == IF ok THEN SelectAuth(ext) ELSE Nil
                    outs == IF NoMethodError(ok, auth)
                            THEN {Ret(q, ErrNoAuthMethod, "") : q \in AfterQuit(st)}
                            ELSE DialAuth(st, auth)
                IN  {[o EXCEPT !.adv = ext] : o \in outs}
                : ext \in AuthExt}

\* Dial that looks for STARTTLS in every encrypted mode.
WantsStartTLSAnyEncrypted(enc) == enc # EncryptNone

\* Whether Dial looks for the STARTTLS extension.
WantsStartTLS(enc) == enc = EncryptTLS

\* (*smtp.Client).StartTLS: the command, the handshake, a new EHLO.
smtpStartTLS(st) ==
    {[st |-> [Issue(st, "STARTTLS", "") EXCEPT !.client.tls = TRUE], err |-> Nil],
     [st |-> Refused(st, "STARTTLS", ""), err |-> ErrReply("STARTTLS")]}

\* The STARTTLS branch, then authentication; advertised tells whether the
\* EHLO reply carried STARTTLS.
DialStartTLS(st, advertised) ==
    IF WantsStartTLS(st.cfg.EncryptType) /\ advertised
    THEN UNION {IF o.err # Nil
                THEN {Ret(q, o.err, "") : q \in AfterQuit(o.st)}
                ELSE DialAuthenticate(o.st)
                : o \in smtpStartTLS(st)}
    ELSE DialAuthenticate(st)

\* The SIZE branch with a fallback: a value that does not parse resets the limit.
StoreSizeOrReset(st, ext) ==
    IF ext # Nil /\ Atoi(ext).ok THEN [st EXCEPT !.cfg.maxMsgSize = Atoi(ext).n]
    ELSE [st EXCEPT !.cfg.maxMsgSize = 0]

\* The SIZE branch: maxMsgSize is stored when the value parses.
StoreSize(st, ext) ==
    IF ext # Nil /\ Atoi(ext).ok THEN [st EXCEPT !.cfg.maxMsgSize = Atoi(ext).n]
    ELSE st

\* s.client = c: the client stored before, if its socket is still open, is
\* an open connection nothing refers to any more.
StoreClient(st, c) ==
    [st EXCEPT !.client = c, !.gen = 1,
               !.orphans = IF st.client # NilPtr /\ st.client.open THEN @ + 1 ELSE @]

\* s.client = c, c.Hello(hostname), and what follows.
DialHello(st, c) ==
    LET s1 == StoreClient(st, c) IN
    {Ret([Refused(s1, "EHLO", "") EXCEPT !.client.hello = "failed"],
         ErrReply("EHLO"), "")}
    \cup UNION {{[o EXCEPT !.sizeExt = size,
                            !.tlsExt = IF ~WantsStartTLS(st.cfg.EncryptType) THEN "-"
                                       ELSE IF advertised THEN "yes" ELSE "no"]
                  : o \in DialStartTLS(StoreSize([Issue(s1, "EHLO", "")
                                                     EXCEPT !.client.hello = "ok"],
                                                 size),
                                        advertised)}
                : size \in SizeExt, advertised \in BOOLEAN}

\* smtp.NewClient(conn, host): the 220 greeting; on an error it closes conn.
DialNewClient(st, c) == {Ret(st, ErrGreeting, "")} \cup DialHello(st, c)

\* The race in which the handshake that lost still stores its client.
DialHandshakeLateStore(st, c) ==
    IF st.cfg.ConnectTimeout # 0
    THEN {Ret(StoreClient([st EXCEPT !.racing = @ + 1], c), ErrTimeout, "")}
         \cup DialNewClient(st, c)
    ELSE DialNewClient(st, c)

\* The handshake, raced against time.After when ConnectTimeout is not zero:
\* when the timer wins, Dial returns and conn stays open with the goroutine.
DialHandshake(st, c) ==
    IF st.cfg.ConnectTimeout # 0
    THEN {Ret([st EXCEPT !.orphans = @ + 1, !.racing = @ + 1], ErrTimeout, "")}
         \cup DialNewClient(st, c)
    ELSE DialNewClient(st, c)

\* Whether the raw connection is wrapped by tls.Client before smtp.NewClient.
WrapsTLS(enc) == enc = EncryptSSL \/ enc = EncryptTLS

\* net.DialTimeout on the wire: a connection of this call, not yet a client.
Connect(st, ok) ==
    [st EXCEPT !.wire = Append(@, [gen |-> 1, cmd |-> "CONNECT", arg |-> "",
                                   tls |-> FALSE, live |-> ok, ok |-> ok])]

\* net.DialTimeout and the TLS wrapping.
DialConnect(st) ==
    LET wrap == WrapsTLS(st.cfg.EncryptType)
        s1   == [Connect(st, TRUE)
                 EXCEPT !.cfg.TlsConfig = IF wrap /\ @ = Nil THEN "set" ELSE @]
        c    == [open |-> TRUE, tls |-> wrap, hello |-> "none", authed |-> FALSE,
                 txn |-> FALSE]
    IN  {Ret(Connect(st, FALSE), ErrTcp, "")} \cup DialHandshake(s1, c)

\* Dial without its test of s.cfg.
ConfigMissingNever(c) == FALSE

\* Whether Dial stops at once for want of a configuration.
ConfigMissing(c) == c = NilPtr

\* (*SmtpClient).Dial: every outcome the environment allows from state st.
DialOutcomes(st) ==
    IF ConfigMissing(st.cfg) THEN {Ret(st, ErrNoConfig, "")}
    ELSE IF st.cfg = NilPtr THEN {Ret(st, Panic, "")}
    ELSE DialConnect(st)

\* ------------------------------------------------------------------ Close

\* Close and Send without their test of s.client.
NotConnectedNever(cl) == FALSE

\* The test `s.client == nil` that opens Close and Send.
NotConnected(cl) == cl = NilPtr

\* (*SmtpClient).Close: a set of [st, err]
CloseOutcomes(st) ==
    IF NotConnected(st.client) THEN {[st |-> st, err |-> ErrNotConnected]}
    ELSE IF st.client = NilPtr THEN {[st |-> st, err |-> Panic]}
    ELSE smtpQuit(st)

\* ------------------------------------------------------------------ Send

\* What a Send did besides returning: the probe's result ("none" when no NOOP
\* was issued), the Dial calls it made, the error of that Dial, the mechanism
\* that Dial selected, the AUTH list it read and what its EHLO reply carried.
NoProbe ==
    [noop |-> "none", dials |-> 0, dialErr |-> Nil, mech |-> "", adv |-> "-",
     tlsExt |-> "-", sizeExt |-> "-"]

\* The outcome of Send; read tells whether the call got to read the envelope
\* (len(m.recipients) and what follows).
SRet(st, err, meta, read) == [st |-> st, err |-> err, meta |-> meta, read |-> read]

\* The test `m == nil`.
NilMail(m) == m = NilPtr

\* A Send that takes every recipient list as filled.
NoRecipientsNever(m) == FALSE

\* The test `len(m.recipients) == 0`.
NoRecipients(m) == Len(m.recipients) = 0

\* Send that never dials again, and Send that dials again whatever the probe said.
ShouldReconnectNever(noopErr) == FALSE

ShouldReconnectAlways(noopErr) == TRUE

\* Whether the probe's result makes Send call Dial.
ShouldReconnect(noopErr) == noopErr # Nil

\* What Send returns when s.client.Data() failed with err.
DataError(err) == Nil

\* A loop over m.recipients that goes on after a refusal and returns the first
\* error at the end.
RECURSIVE RcptLoopThrough(_, _, _)
RcptLoopThrough(st, rcpts, i) ==
    IF i > Len(rcpts) THEN {[st |-> st, err |-> Nil]}
    ELSE UNION {{[st |-> x.st, err |-> IF o.err # Nil THEN o.err ELSE x.err]
                 : x \in RcptLoopThrough(o.st, rcpts, i + 1)}
                : o \in smtpRcpt(st, rcpts[i])}

\* The loop over m.recipients: it stops at the first RCPT that fails.
RECURSIVE RcptLoop(_, _, _)
RcptLoop(st, rcpts, i) ==
    IF i > Len(rcpts) THEN {[st |-> st, err |-> Nil]}
    ELSE UNION {IF o.err # Nil THEN {o} ELSE RcptLoop(o.st, rcpts, i + 1)
                : o \in smtpRcpt(st, rcpts[i])}

\* Data, Write, Close on the assembled text.
SendData(st, meta, bytes) ==
    UNION {IF d.err # Nil THEN {SRet(d.st, DataError(d.err), meta, TRUE)}
           ELSE UNION {IF w.err # Nil
                       THEN {SRet(x.st, w.err, meta, TRUE) : x \in dataClose(w.st)}
                       ELSE {SRet(x.st, x.err, meta, TRUE) : x \in dataClose(w.st)}
                       : w \in dataWrite(d.st, bytes)}
           : d \in smtpData(st)}

\* Send from MAIL FROM on, over the stored client.
SendTransmit(st, m, meta, date) ==
    UNION {IF o.err # Nil THEN {SRet(o.st, o.err, meta, FALSE)}
           ELSE IF m = NilPtr THEN {SRet(o.st, Panic, meta, TRUE)}
           ELSE IF NoRecipients(m) THEN {SRet(o.st, ErrNoRecipients, meta, TRUE)}
           ELSE UNION {IF r.err # Nil THEN {SRet(r.st, r.err, meta, TRUE)}
                       ELSE LET mb  == SetFieldFrom(m.mb, st.cfg.Name, st.cfg.Login)
                                res == GetResultMessage(mb, st.cfg.maxMsgSize, date)
                            IN  IF res.err # Nil THEN {SRet(r.st, res.err, meta, TRUE)}
                                ELSE SendData(r.st, meta, res.out)
                       : r \in RcptLoop(o.st, m.recipients, 1)}
           : o \in smtpMail(st, st.cfg.Login)}

\* The probe failed: s.Dial(), once, and the transmission over the new client.
SendReconnect(st, m, date) ==
    UNION {LET meta == [noop |-> "failed", dials |-> 1, dialErr |-> d.err,
                        mech |-> d.mech, adv |-> d.adv, tlsExt |-> d.tlsExt,
                        sizeExt |-> d.sizeExt]
           IN  IF d.err = Panic THEN {SRet(d.st, Panic, meta, FALSE)}
               ELSE IF d.err # Nil THEN {SRet(d.st, ErrReconnect(d.err), meta, FALSE)}
               ELSE SendTransmit(d.st, m, meta, date)
           : d \in DialOutcomes(st)}

\* (*SmtpClient).Send(m): every outcome the environment allows from state st.
SendOutcomes(st, m, date) ==
    IF NotConnected(st.client) THEN {SRet(st, ErrNotConnected, NoProbe, FALSE)}
    ELSE IF NilMail(m) THEN {SRet(st, ErrNilMail, NoProbe, FALSE)}
    ELSE IF st.client = NilPtr THEN {SRet(st, Panic, NoProbe, FALSE)}
    ELSE UNION {IF ShouldReconnect(n.err) THEN SendReconnect(n.st, m, date)
                ELSE SendTransmit(n.st, m,
                                  [NoProbe EXCEPT !.noop = IF n.err = Nil THEN "ok"
                                                           ELSE "failed"],
                                  date)
                : n \in smtpNoop(st)}

\* ------------------------------------------------------------------ the client

\* The configurations NewClient may be given: none, or a *SmtpConfig whose
\* unexported maxMsgSize is zero.
Configs ==
    {NilPtr} \cup
    [NeedAuth : BOOLEAN, EncryptType : {EncryptSSL, EncryptTLS, EncryptNone},
     ConnectTimeout : {0, 10}, Name : {"Test"},
     Login : {"", "sender@example.com"}, Password : {"", "secret"},
     TlsConfig : {Nil}, maxMsgSize : {0}]

\* The program state the operations above work on, at the start of a call.
Cur ==
    [cfg |-> cfg, client |-> client, orphans |-> orphans, wire |-> <<>>, gen |-> 0,
     racing |-> racing]

\* The caller is between two calls: the client was just made, or the last
\* call has returned and its record was taken.
Ready == last.op \in {"NewClient", "idle"}

\* Whether the call now starting follows a Close that returned nil on a client
\* some Dial of which had succeeded.
AfterClose == last.afterClose

\* No call on an envelope was made yet.
NoCall == [op |-> "none", arg |-> Nil, err |-> Nil, out |-> Nil]

\* NewClient(cfg)
Init ==
    /\ cfg \in Configs
    /\ client = NilPtr
    /\ orphans = 0
    /\ racing = 0
    /\ stuck = 0
    /\ wire = <<>>
    /\ dialed = FALSE
    /\ last = [op |-> "NewClient", err |-> Nil, mail |-> "nil", meta |-> NoProbe,
               hadClient |-> FALSE, afterClose |-> FALSE]
    /\ mail = NilPtr
    /\ call = NoCall
    /\ alt = NewMultipartAltMessage
    /\ mix = NewMultipartMixedMessage

\* A call of Dial by the caller.
Dial ==
    /\ Ready
    /\ \E o \in DialOutcomes(Cur) :
          /\ o.st.orphans <= MaxOrphans
          /\ o.st.racing + stuck <= MaxRoutines
          /\ cfg' = o.st.cfg
          /\ client' = o.st.client
          /\ orphans' = o.st.orphans
          /\ racing' = o.st.racing
          /\ stuck' = stuck
          /\ wire' = o.st.wire
          /\ dialed' = (dialed \/ o.err = Nil)
          /\ last' = [op |-> "Dial", err |-> o.err, mail |-> "nil",
                      meta |-> [noop |-> "none", dials |-> 1, dialErr |-> o.err,
                                mech |-> o.mech, adv |-> o.adv,
                                tlsExt |-> o.tlsExt, sizeExt |-> o.sizeExt],
                      hadClient |-> client # NilPtr, afterClose |-> AfterClose]
    /\ UNCHANGED <<mail, call, alt, mix>>

\* A call of Close by the caller.
Close ==
    /\ Ready
    /\ \E o \in CloseOutcomes(Cur) :
          /\ cfg' = o.st.cfg
          /\ client' = o.st.client
          /\ orphans' = o.st.orphans
          /\ UNCHANGED <<racing, stuck>>
          /\ wire' = o.st.wire
          /\ dialed' = dialed
          /\ last' = [op |-> "Close", err |-> o.err, mail |-> "nil", meta |-> NoProbe,
                      hadClient |-> client # NilPtr, afterClose |-> AfterClose]
    /\ UNCHANGED <<mail, call, alt, mix>>

\* Send with each envelope a caller may pass, each outcome with the name of
\* the envelope as far as the call looked at it.
SendCalls(st) ==
    UNION {{[st |-> o.st, err |-> o.err, meta |-> o.meta,
             mail |-> IF o.read \/ m = "nil" THEN m ELSE "some"]
            : o \in SendOutcomes(st, MailOf(m), date)}
           : m \in MailNames, date \in Clock}

\* A call of Send by the caller, with no envelope or with one of the envelopes.
Send ==
    /\ Ready
    /\ \E o \in SendCalls(Cur) :
          /\ o.st.orphans <= MaxOrphans
          /\ o.st.racing + stuck <= MaxRoutines
          /\ cfg' = o.st.cfg
          /\ client' = o.st.client
          /\ orphans' = o.st.orphans
          /\ racing' = o.st.racing
          /\ stuck' = stuck
          /\ wire' = o.st.wire
          /\ dialed' = (dialed \/ (o.meta.dials > 0 /\ o.meta.dialErr = Nil))
          /\ last' = [op |-> "Send", err |-> o.err, mail |-> o.mail, meta |-> o.meta,
                      hadClient |-> client # NilPtr, afterClose |-> AfterClose]
    /\ UNCHANGED <<mail, call, alt, mix>>

\* The call has returned and the caller goes on: the record of the call is
\* dropped, but for whether it was a Close that ended a session.  A panic
\* ends the program instead.
Return ==
    /\ ~Ready
    /\ last.err # Panic
    /\ wire' = <<>>
    /\ last' = [op |-> "idle", err |-> Nil, mail |-> "nil", meta |-> NoProbe,
                hadClient |-> FALSE,
                afterClose |-> (last.op = "Close" /\ last.err = Nil /\ dialed)]
    /\ UNCHANGED <<cfg, client, orphans, dialed, racing, stuck, mail, call, alt, mix>>

\* A handshake goroutine whose Dial returned on the timer gets the result of
\* smtp.NewClient: it assigns the c and err it captured, which nothing reads
\* any more, and blocks on connChan <- err, a channel without a receiver.
\* When the greeting was refused NewClient has closed the connection.
LateHandshake ==
    /\ racing > 0
    /\ \E greeted \in BOOLEAN :
          orphans' = IF greeted THEN orphans ELSE orphans - 1
    /\ racing' = racing - 1
    /\ stuck' = stuck + 1
    /\ UNCHANGED <<cfg, client, wire, last, dialed, mail, call, alt, mix>>

Next == Dial \/ Close \/ Send \/ Return \/ LateHandshake

Spec == Init /\ [][Next]_vars

\* ------------------------------------------------------------------ the envelope

\* A caller builds one envelope call by call (NewMail, then To, CopyTo,
\* BlindCopyTo, SetSubject, SetMessage in any order and number), has it
\* rendered, and sends it over a client whose Dial has succeeded.

RECURSIVE Rep(_, _)
Rep(s, n) ==
    IF n = 0 THEN ""
    ELSE IF n % 2 = 0 THEN LET h == Rep(s, n \div 2) IN h \o h
    ELSE s \o Rep(s, n - 1)

\* An address of n characters, n > 12.
AddrOfLen(n) == Rep("a", n - 12) \o "@example.com"

\* The argument lists of To, CopyTo and BlindCopyTo: no address, addresses
\* the tests call invalid, an address one character too long, one of the
\* greatest length allowed, two plain addresses, a display name with its
\* address, a list whose second address is invalid and one whose second
\* address is too long.
EmailLists ==
    {<<>>, <<"">>, <<"////">>, <<"1234">>, <<"<>">>, <<"^@">>, <<"i am hero">>,
     <<AddrOfLen(MaxAddrLen + 1)>>, <<AddrOfLen(MaxAddrLen)>>,
     <<"example1@example.com", "example2@example.com">>,
     <<"John Doe <john@example.com>">>,
     <<"example2@example.com", "1234">>,
     <<"example1@example.com", AddrOfLen(MaxAddrLen + 1)>>}

Subjects == {"Hi", "Report"}

Messages ==
    {TextMessage("text/plain", "Hello, World"), TextMessage("text/html", "<p>Hi</p>")}

\* The limits GetResultMessage is tried with on a text of n bytes.
SizeLimits(n) == {0, 1, n - 1, n, n + 1}

\* The client after a Dial that succeeded without authentication on a plain
\* connection to a server without the SIZE extension, and a new envelope.
MailInit ==
    /\ cfg \in [NeedAuth : {FALSE}, EncryptType : {EncryptNone}, ConnectTimeout : {0},
                Name : {"Test"}, Login : {"sender@example.com"}, Password : {""},
                TlsConfig : {Nil}, maxMsgSize : {0}]
    /\ client = [open |-> TRUE, tls |-> FALSE, hello |-> "ok", authed |-> FALSE,
                 txn |-> FALSE]
    /\ orphans = 0
    /\ racing = 0
    /\ stuck = 0
    /\ wire = <<>>
    /\ dialed = TRUE
    /\ last = [op |-> "idle", err |-> Nil, mail |-> "nil", meta |-> NoProbe,
               hadClient |-> FALSE, afterClose |-> FALSE]
    /\ mail = NewMail(NilPtr)
    /\ call = NoCall
    /\ alt = NewMultipartAltMessage
    /\ mix = NewMultipartMixedMessage

\* The caller is between two calls and has not sent the envelope yet.
Building == last.op = "idle" /\ call.op = "none"

\* m.To(emails...)
CallTo ==
    /\ Building
    /\ \E e \in EmailLists :
          /\ Len(mail.recipients) + Len(e) <= MaxRecipients
          /\ LET r == To(mail, e) IN
                /\ mail' = r.m
                /\ call' = [op |-> "To", arg |-> e, err |-> r.err, out |-> Nil]
    /\ UNCHANGED <<cfg, client, orphans, wire, last, dialed, racing, stuck, alt, mix>>

\* m.CopyTo(emails...)
CallCopyTo ==
    /\ Building
    /\ \E e \in EmailLists :
          /\ Len(mail.recipients) + Len(e) <= MaxRecipients
          /\ LET r == CopyTo(mail, e) IN
                /\ mail' = r.m
                /\ call' = [op |-> "CopyTo", arg |-> e, err |-> r.err, out |-> Nil]
    /\ UNCHANGED <<cfg, client, orphans, wire, last, dialed, racing, stuck, alt, mix>>

\* m.BlindCopyTo(emails...)
CallBlindCopyTo ==
    /\ Building
    /\ \E e \in EmailLists :
          /\ Len(mail.recipients) + Len(e) <= MaxRecipients
          /\ LET r == BlindCopyTo(mail, e) IN
                /\ mail' = r.m
                /\ call' = [op |-> "BlindCopyTo", arg |-> e, err |-> r.err,
                            out |-> Nil]
    /\ UNCHANGED <<cfg, client, orphans, wire, last, dialed, racing, stuck, alt, mix>>

\* m.SetSubject(subj)
CallSetSubject ==
    /\ Building
    /\ \E subj \in Subjects :
          /\ mail' = SetSubject(mail, subj)
          /\ call' = [op |-> "SetSubject", arg |-> subj, err |-> Nil, out |-> Nil]
    /\ UNCHANGED <<cfg, client, orphans, wire, last, dialed, racing, stuck, alt, mix>>

\* m.SetMessage(msg)
CallSetMessage ==
    /\ Building
    /\ \E msg \in Messages :
          /\ mail' = SetMessage(mail, msg)
          /\ call' = [op |-> "SetMessage", arg |-> msg, err |-> Nil, out |-> Nil]
    /\ UNCHANGED <<cfg, client, orphans, wire, last, dialed, racing, stuck, alt, mix>>

\* m.mb.GetResultMessage(max) on the envelope as it stands.
CallGetResultMessage ==
    /\ Building
    /\ \E date \in Clock :
          \E max \in SizeLimits(Len(Assemble(mail.mb, date))) :
              LET res == GetResultMessage(mail.mb, max, date) IN
              call' = [op |-> "GetResultMessage", arg |-> max, err |-> res.err,
                       out |-> res.out]
    /\ UNCHANGED <<cfg, client, orphans, wire, last, dialed, racing, stuck, mail, alt, mix>>

\* Whether an outcome of Send got past the RCPT loop, to m.mb.SetFieldFrom.
ReachedSetFieldFrom(o, m) ==
    /\ o.read
    /\ ~NoRecipients(m)
    /\ Len(SelectSeq(o.st.wire, LAMBDA e : e.cmd = "RCPT TO" /\ e.ok))
           = Len(m.recipients)

\* s.Send(m) with the envelope as it stands.  Of a reconnect the record keeps
\* the probe, the Dial and its error.
CallSend ==
    /\ Building
    /\ \E date \in Clock :
          \E o \in SendOutcomes(Cur, mail, date) :
              /\ cfg' = o.st.cfg
              /\ client' = o.st.client
              /\ orphans' = o.st.orphans
              /\ racing' = o.st.racing
              /\ stuck' = stuck
              /\ wire' = o.st.wire
              /\ dialed' = (dialed \/ (o.meta.dials > 0 /\ o.meta.dialErr = Nil))
              /\ last' = [op |-> "Send", err |-> o.err,
                          mail |-> IF o.read THEN "built" ELSE "some",
                          meta |-> [NoProbe EXCEPT !.noop = o.meta.noop,
                                                   !.dials = o.meta.dials,
                                                   !.dialErr = o.meta.dialErr],
                          hadClient |-> client # NilPtr,
                          afterClose |-> AfterClose]
              /\ mail' = IF ReachedSetFieldFrom(o, mail)
                         THEN [mail EXCEPT !.mb = SetFieldFrom(@, cfg.Name, cfg.Login)]
                         ELSE mail
              /\ call' = [op |-> "Send", arg |-> mail, err |-> o.err, out |-> Nil]
              /\ alt' = alt
              /\ mix' = mix

\* time.Now() at a Send that follows another one: the same second or a later one.
ClockAfter == Clock \cup {"Wed, 04 Nov 2026 18:56:01 +0000"}

\* s.Send(m) once more, with the envelope as the Send that has just returned
\* left it.
CallSendAgain ==
    /\ call.op = "Send"
    /\ last.op = "Send"
    /\ last.err # Panic
    /\ \E date \in ClockAfter :
          \E o \in SendOutcomes(Cur, mail, date) :
              /\ o.st.orphans <= MaxOrphans
              /\ cfg' = o.st.cfg
              /\ client' = o.st.client
              /\ orphans' = o.st.orphans
              /\ racing' = o.st.racing
              /\ stuck' = stuck
              /\ wire' = o.st.wire
              /\ dialed' = (dialed \/ (o.meta.dials > 0 /\ o.meta.dialErr = Nil))
              /\ last' = [op |-> "Send", err |-> o.err,
                          mail |-> IF o.read THEN "built" ELSE "some",
                          meta |-> [NoProbe EXCEPT !.noop = o.meta.noop,
                                                   !.dials = o.meta.dials,
                                                   !.dialErr = o.meta.dialErr],
                          hadClient |-> client # NilPtr,
                          afterClose |-> AfterClose]
              /\ mail' = IF ReachedSetFieldFrom(o, mail)
                         THEN [mail EXCEPT !.mb = SetFieldFrom(@, cfg.Name, cfg.Login)]
                         ELSE mail
              /\ call' = [op |-> "Send", arg |-> mail, err |-> o.err, out |-> Nil]
              /\ alt' = alt
              /\ mix' = mix

\* A call on the envelope has returned and the caller goes on.
CallReturn ==
    /\ call.op \notin {"none", "Send"}
    /\ call' = NoCall
    /\ UNCHANGED <<cfg, client, orphans, wire, last, dialed, racing, stuck, mail, alt, mix>>

MailNext ==
    \/ CallReturn
    \/ CallTo
    \/ CallCopyTo
    \/ CallBlindCopyTo
    \/ CallSetSubject
    \/ CallSetMessage
    \/ CallGetResultMessage
    \/ CallSend

MailSpec == MailInit /\ [][MailNext]_vars

\* ------------------------------------------------------------------ sending twice
\* The fourth specification: a caller has built an envelope and sends it, and
\* sends it again after each Send that returned.

\* Envelopes as To, CopyTo, BlindCopyTo, SetSubject and SetMessage leave them.
Envelopes ==
    LET new  == NewMail(NilPtr)
        to1  == To(new, <<"example@example.com">>).m
        to2  == To(new, <<"example1@example.com", "example2@example.com">>).m
        cc   == CopyTo(to1, <<"John Doe <john@example.com>">>).m
        bcc  == BlindCopyTo(cc, <<"example2@example.com">>).m
        text == TextMessage("text/plain", "Hello, World")
    IN  {new,
         CopyTo(new, <<"example@example.com">>).m,
         SetMessage(SetSubject(to1, "Hi"), text),
         SetMessage(SetSubject(to2, "Report"), TextMessage("text/html", "<p>Hi</p>")),
         SetMessage(SetSubject(bcc, "Hi"), text),
         bcc}

\* The client of MailInit and an envelope that was built.
ResendInit ==
    /\ cfg \in [NeedAuth : {FALSE}, EncryptType : {EncryptNone}, ConnectTimeout : {0},
                Name : {"Test", ""}, Login : {"sender@example.com"}, Password : {""},
                TlsConfig : {Nil}, maxMsgSize : {0}]
    /\ client = [open |-> TRUE, tls |-> FALSE, hello |-> "ok", authed |-> FALSE,
                 txn |-> FALSE]
    /\ orphans = 0
    /\ racing = 0
    /\ stuck = 0
    /\ wire = <<>>
    /\ dialed = TRUE
    /\ last = [op |-> "idle", err |-> Nil, mail |-> "nil", meta |-> NoProbe,
               hadClient |-> FALSE, afterClose |-> FALSE]
    /\ mail \in Envelopes
    /\ call = NoCall
    /\ alt = NewMultipartAltMessage
    /\ mix = NewMultipartMixedMessage

ResendNext == CallSend \/ CallSendAgain

ResendSpec == ResendInit /\ [][ResendNext]_vars

\* ------------------------------------------------------------------ rendering
\* The third specification: a caller creates an envelope with NewMail, builds
\* a multipart/alternative message part by part, sets it or a text message on
\* the envelope (SetMessage renders it at once) and encodes bodies with the
\* envelope's builder.  Before that the folding functions of mime.go are
\* applied to header texts and address lists; they read no state.

\* The configurations handed to NewMail: nil, and every combination of a set
\* or unset ("") Charset and Encoding.
MailConfigs ==
    {NilPtr} \cup [Charset : {"", "UTF-8", "ISO-8859-1"},
                   Encoding : {"", "base64", "quoted-printable"}]

\* The addresses of mime_test.go, and two more of the same shape.
Examples ==
    <<"example1@example.com", "example2@example.com", "example3@example.com",
      "example4@example.com", "example5@example.com", "example6@example.com">>

\* The address lists makeAddrString is applied to: one to six addresses of the
\* tests, an address that fills a line exactly and one that is a character
\* longer, alone and among short ones.
AddrLists ==
    {SubSeq(Examples, 1, n) : n \in 1..Len(Examples)}
        \cup {<<AddrOfLen(lineLengthLimit - 3)>>,
              <<AddrOfLen(lineLengthLimit - 2)>>,
              <<AddrOfLen(lineLengthLimit - 3), "a@b.co">>,
              <<"a@b.co", AddrOfLen(lineLengthLimit - 3), "c@d.co">>,
              <<"a@b.co", "c@d.co", AddrOfLen(lineLengthLimit - 2), "e@f.co", "g@h.co">>,
              <<AddrOfLen(lineLengthLimit - 26), "example1@example.com",
                "example2@example.com">>}

\* A token of n characters without white space.
Tok(n) == SubSeq(Rep("0123456789", n), 1, n)

\* The encoded subject of TestSplitHeader, longer than a line.
LongWord ==
    "=?UTF-8?B?VmVyeSB2ZXJ5IHZlcnkgdmVyeSB2ZXJ5IHZlcnkgdmVyeSB2ZXJ5IHZlcnkgdmVyeSB2ZXJ5IGxvbmcgc3RyaW5n?="

\* One of the three words of subjectExample in mime_test.go.
TestWord == "=?UTF-8?B?U29tZSB2ZXJ5IGxvbmcgdGV4dCB3aXRob3V0IG1lYW5pbmc=?="

\* The header texts splitHeader is applied to: empty, white space only, short
\* words, words around one and two lines long, and words mixed with spaces,
\* tabs and line breaks.
Headers ==
    {"", " ", " \t\r\n", "Hi", "Hello world", " a\r\nb\t", "=?UTF-8?B?SGVsbG8gd29ybGQ=?=",
     Tok(lineLengthLimit - 1), Tok(lineLengthLimit), Tok(lineLengthLimit + 1),
     Tok(2 * lineLengthLimit), Tok(2 * lineLengthLimit + 1), LongWord,
     TestWord \o " \n" \o TestWord \o " \n" \o TestWord,
     "Re: " \o Tok(lineLengthLimit + 1), Tok(lineLengthLimit + 1) \o " tail",
     Tok(lineLengthLimit) \o "\n" \o Tok(lineLengthLimit + 2) \o "  x",
     Tok(lineLengthLimit) \o "\r\n" \o Tok(lineLengthLimit),
     "a\r\nb", "one\r\ntwo\r\nthree"}

\* The bodies EncodeBody is applied to.
Bodies == {"", "Hello, World", "a=b", "1+1=2 ", Tok(lineLengthLimit + 4)}

\* The order values given to the parts of a multipart/alternative message.
AltOrders == {2, 3}

\* The attachments added to a multipart/mixed message: the file names of the
\* sample, set with SetAsBinary.
Attachments ==
    {SetAsBinary("1.csv", "a;b"), SetAsBinary("4fzj5r9pFbY.jpg", "JFIF")}

\* The most attachments a multipart/mixed message is given.
MaxAttachments == 2

\* The most parts a multipart/alternative message is given.
MaxParts == 3

\* The client as in MailInit; no envelope yet and a message without parts.
MimeInit ==
    /\ cfg \in [NeedAuth : {FALSE}, EncryptType : {EncryptNone}, ConnectTimeout : {0},
                Name : {"Test"}, Login : {"sender@example.com"}, Password : {""},
                TlsConfig : {Nil}, maxMsgSize : {0}]
    /\ client = [open |-> TRUE, tls |-> FALSE, hello |-> "ok", authed |-> FALSE,
                 txn |-> FALSE]
    /\ orphans = 0
    /\ racing = 0
    /\ stuck = 0
    /\ wire = <<>>
    /\ dialed = TRUE
    /\ last = [op |-> "idle", err |-> Nil, mail |-> "nil", meta |-> NoProbe,
               hadClient |-> FALSE, afterClose |-> FALSE]
    /\ mail = NilPtr
    /\ call = NoCall
    /\ alt = NewMultipartAltMessage
    /\ mix = NewMultipartMixedMessage

\* splitHeader(header)
MimeSplitHeader ==
    /\ call.op = "none"
    /\ mail = NilPtr
    /\ \E h \in Headers :
          call' = [op |-> "splitHeader", arg |-> h, err |-> Nil, out |-> splitHeader(h)]
    /\ UNCHANGED <<cfg, client, orphans, wire, last, dialed, racing, stuck, mail, alt, mix>>

\* splitHeader applied to the text splitHeader has just returned.
MimeSplitAgain ==
    /\ call.op = "splitHeader"
    /\ call' = [op |-> "splitHeader", arg |-> call.out, err |-> Nil,
                out |-> splitHeader(call.out)]
    /\ UNCHANGED <<cfg, client, orphans, wire, last, dialed, racing, stuck, mail, alt, mix>>

\* What a server may send as the text of a reply during AUTH LOGIN.
Challenges ==
    {"Username:", "Password:", "Username", "Password", "username:", "password:",
     "Hello", "", "Username and Password", "Password for Username", "User name:",
     "334 Password:"}

\* The credentials LoginAuth was built with.
Credentials ==
    {[username |-> "sender@example.com", password |-> "secret"],
     [username |-> "Password", password |-> "Username"],
     [username |-> "", password |-> ""]}

\* a.Next(fromServer, more) on the value LoginAuth(username, password) returned
MimeAuthLoginNext ==
    /\ call.op = "none"
    /\ mail = NilPtr
    /\ \E c \in Credentials, fromServer \in Challenges, more \in BOOLEAN :
          LET r == authLoginNext(c.username, c.password, fromServer, more) IN
          call' = [op |-> "authLogin.Next",
                   arg |-> [username |-> c.username, password |-> c.password,
                            fromServer |-> fromServer, more |-> more],
                   err |-> r.err, out |-> r.resp]
    /\ UNCHANGED <<cfg, client, orphans, wire, last, dialed, racing, stuck, mail, alt, mix>>

\* makeAddrString(addr)
MimeMakeAddrString ==
    /\ call.op = "none"
    /\ mail = NilPtr
    /\ \E a \in AddrLists :
          call' = [op |-> "makeAddrString", arg |-> a, err |-> Nil,
                   out |-> makeAddrString(a)]
    /\ UNCHANGED <<cfg, client, orphans, wire, last, dialed, racing, stuck, mail, alt, mix>>

\* NewMail(cfg)
MimeNewMail ==
    /\ call.op = "none"
    /\ mail = NilPtr
    /\ \E c \in MailConfigs :
          /\ mail' = NewMail(c)
          /\ call' = [op |-> "NewMail", arg |-> c, err |-> Nil, out |-> Nil]
    /\ UNCHANGED <<cfg, client, orphans, wire, last, dialed, racing, stuck, alt, mix>>

\* m.mb.EncodeBody(body), on the new envelope: the result depends on the
\* builder's encoding alone.
MimeEncodeBody ==
    /\ call.op = "none"
    /\ mail # NilPtr
    /\ DOMAIN mail.mb.header = {}
    /\ alt.msg = <<>>
    /\ \E b \in Bodies :
          call' = [op |-> "EncodeBody", arg |-> b, err |-> Nil,
                   out |-> EncodeBody(mail.mb, b)]
    /\ UNCHANGED <<cfg, client, orphans, wire, last, dialed, racing, stuck, mail, alt, mix>>

\* mt.SetPlainText(text, order), while the message is not yet set on the
\* envelope; the caller builds one multipart message, this one or a mixed one
MimeSetPlainText ==
    /\ call.op = "none"
    /\ mail # NilPtr
    /\ "multipart/alternative" \notin DOMAIN mail.mb.header
    /\ mix = NewMultipartMixedMessage
    /\ Len(alt.msg) < MaxParts
    /\ \E order \in AltOrders :
          /\ alt' = SetPlainText(alt, "Hello, World", order)
          /\ call' = [op |-> "SetPlainText", arg |-> order, err |-> Nil, out |-> Nil]
    /\ UNCHANGED <<cfg, client, orphans, wire, last, dialed, racing, stuck, mail, mix>>

\* mt.SetHtmlText(text, order), while the message is not yet set on the
\* envelope
MimeSetHtmlText ==
    /\ call.op = "none"
    /\ mail # NilPtr
    /\ "multipart/alternative" \notin DOMAIN mail.mb.header
    /\ mix = NewMultipartMixedMessage
    /\ Len(alt.msg) < MaxParts
    /\ \E order \in AltOrders :
          /\ alt' = SetHtmlText(alt, "<b>Hello, World</b>", order)
          /\ call' = [op |-> "SetHtmlText", arg |-> order, err |-> Nil, out |-> Nil]
    /\ UNCHANGED <<cfg, client, orphans, wire, last, dialed, racing, stuck, mail, mix>>

\* m.SetMessage(&msg) with a text message, also as the first call on the
\* envelope NewMail has just returned
MimeSetMessage ==
    /\ call.op \in {"none", "NewMail"}
    /\ mail # NilPtr
    /\ \E msg \in {TextMessage("text/plain", "Hello, World")} :
          /\ mail' = SetMessage(mail, msg)
          /\ call' = [op |-> "SetMessage", arg |-> msg, err |-> Nil,
                      out |-> TextGetContent(msg, mail.mb)]
    /\ UNCHANGED <<cfg, client, orphans, wire, last, dialed, racing, stuck, alt, mix>>

\* m.SetMessage(&mt) with the multipart/alternative message, also right after
\* the call that has just rendered it.
MimeSetMessageAlt ==
    /\ call.op \in {"none", "SetMessageAlt"}
    /\ mail # NilPtr
    /\ LET r == SetMessageAlt(mail, alt) IN
          /\ mail' = r.m
          /\ alt' = r.alt
          /\ call' = [op |-> "SetMessageAlt", arg |-> alt, err |-> Nil,
                      out |-> Hdr(r.m.mb, "multipart/alternative")]
    /\ UNCHANGED <<cfg, client, orphans, wire, last, dialed, racing, stuck, mix>>

\* mt.SetText(ctype, text) on the multipart/mixed message, while it is not
\* yet set on the envelope
MimeSetText ==
    /\ call.op = "none"
    /\ mail # NilPtr
    /\ "multipart/mixed" \notin DOMAIN mail.mb.header
    /\ alt.msg = <<>>
    /\ \E msg \in Messages :
          /\ mix' = SetText(mix, msg.ctype, msg.text)
          /\ call' = [op |-> "SetText", arg |-> msg, err |-> Nil, out |-> Nil]
    /\ UNCHANGED <<cfg, client, orphans, wire, last, dialed, racing, stuck, mail, alt>>

\* mt.AddAttachment(a)
MimeAddAttachment ==
    /\ call.op = "none"
    /\ mail # NilPtr
    /\ "multipart/mixed" \notin DOMAIN mail.mb.header
    /\ alt.msg = <<>>
    /\ Len(mix.attachments) < MaxAttachments
    /\ \E a \in Attachments :
          /\ mix' = AddAttachment(mix, a)
          /\ call' = [op |-> "AddAttachment", arg |-> a, err |-> Nil, out |-> Nil]
    /\ UNCHANGED <<cfg, client, orphans, wire, last, dialed, racing, stuck, mail, alt>>

\* m.SetMessage(&mt) with the multipart/mixed message
MimeSetMessageMix ==
    /\ call.op = "none"
    /\ mail # NilPtr
    /\ alt.msg = <<>>
    /\ mail' = SetMessageMix(mail, mix)
    /\ call' = [op |-> "SetMessageMix", arg |-> mix, err |-> Nil,
                out |-> MixGetContent(mix, mail.mb)]
    /\ UNCHANGED <<cfg, client, orphans, wire, last, dialed, racing, stuck, alt, mix>>

\* A call has returned and the caller goes on.
MimeReturn ==
    /\ call.op # "none"
    /\ call' = NoCall
    /\ UNCHANGED <<cfg, client, orphans, wire, last, dialed, racing, stuck, mail, alt, mix>>

MimeNext ==
    \/ MimeReturn
    \/ MimeSplitHeader
    \/ MimeSplitAgain
    \/ MimeMakeAddrString
    \/ MimeAuthLoginNext
    \/ MimeNewMail
    \/ MimeEncodeBody
    \/ MimeSetPlainText
    \/ MimeSetHtmlText
    \/ MimeSetMessage
    \/ MimeSetMessageAlt
    \/ MimeSetText
    \/ MimeAddAttachment
    \/ MimeSetMessageMix

MimeSpec == MimeInit /\ [][MimeNext]_vars

\* ------------------------------------------------------------------ properties

\* What the wire of the last call shows.
Has(cmd) == \E i \in DOMAIN wire : wire[i].cmd = cmd

Done(cmd) == \E i \in DOMAIN wire : wire[i].cmd = cmd /\ wire[i].ok

DoneOn(cmd, g) ==
    \E i \in DOMAIN wire :
        wire[i].cmd = cmd /\ wire[i].gen = g /\ wire[i].ok /\ wire[i].live

NoneRefusedOn(g) == \A i \in DOMAIN wire : wire[i].gen = g => wire[i].ok

Connects == Cardinality({i \in DOMAIN wire : wire[i].cmd = "CONNECT"})

IsAuthCmd(c) == Len(c) >= 5 /\ SubSeq(c, 1, 5) = "AUTH "

NoAuthExchange ==
    \A i \in DOMAIN wire : ~IsAuthCmd(wire[i].cmd) /\ wire[i].cmd # "RESP"

\* The error Send meets in the named envelope under the stored configuration,
\* Nil when the envelope can be sent.
EnvelopeError(name) ==
    LET m == MailOf(name) IN
    IF NoRecipients(m) THEN ErrNoRecipients
    ELSE GetResultMessage(SetFieldFrom(m.mb, cfg.Name, cfg.Login), cfg.maxMsgSize,
                          CHOOSE d \in Clock : TRUE).err

\* C1: Send returns nil only if the data channel was opened, the bytes were
\* written and the channel was closed without error; so a Send that returned
\* nil shows an accepted DATA, the written bytes and an accepted final dot.
\* The code returns nil when s.client.Data() fails: this formula is violated.
C1_SendNilMeansDelivered ==
    (last.op = "Send" /\ last.err = Nil) => (Done("DATA") /\ Done("BYTES") /\ Done("."))

\* C1, the failing case: the server refused DATA and Send returned nil.
C1_DataRefusedSendNil ==
    /\ last.op = "Send"
    /\ last.err = Nil
    /\ \E i \in DOMAIN wire : wire[i].cmd = "DATA" /\ ~wire[i].ok
    /\ ~Has("BYTES")

\* C2: a Send that follows a Close which ended a session some Dial had
\* established finds the probe failed and dials once by itself; when that Dial
\* succeeds, the server refuses nothing on the new connection and the envelope
\* can be sent, Send returns nil and the message went out on the new
\* connection, with MAIL FROM, DATA, the bytes and the final dot accepted there.
C2_SendAfterCloseReconnects ==
    (last.op = "Send" /\ last.afterClose /\ last.mail # "nil") =>
        /\ ~Done("NOOP")
        /\ Connects = 1
        /\ last.meta.dials = 1
        /\ (/\ last.meta.dialErr = Nil
            /\ NoneRefusedOn(1)
            /\ last.mail # "some"
            /\ EnvelopeError(last.mail) = Nil)
           => /\ last.err = Nil
              /\ DoneOn("MAIL FROM", 1)
              /\ DoneOn("DATA", 1)
              /\ DoneOn("BYTES", 1)
              /\ DoneOn(".", 1)

\* C2, reached: Send after Close returned nil with the message delivered on
\* the connection it dialed itself.
C2_SecondSendDelivered ==
    /\ last.op = "Send"
    /\ last.afterClose
    /\ last.mail = "one"
    /\ last.err = Nil
    /\ Connects = 1
    /\ DoneOn("BYTES", 1)
    /\ DoneOn(".", 1)

\* C3: within one Send at most one connection is dialed, and only when the
\* probe did not succeed; a probe that succeeded means no Dial and nothing on
\* a new connection; when the Dial inside Send did not succeed, no MAIL FROM,
\* RCPT TO or DATA is issued, and the error Dial returned comes back wrapped in
\* the reconnect error.
C3_AtMostOneReconnect ==
    last.op = "Send" =>
        /\ Connects <= 1
        /\ Connects = last.meta.dials
        /\ Connects = 1 => ~Done("NOOP")
        /\ Done("NOOP") => \A i \in DOMAIN wire : wire[i].gen = 0
        /\ (last.meta.dials = 1 /\ last.meta.dialErr # Nil)
           => /\ ~Has("MAIL FROM") /\ ~Has("RCPT TO") /\ ~Has("DATA")
              /\ last.meta.dialErr # Panic
                 => last.err = "wail: an error occured while reconnecting to the server ("
                               \o last.meta.dialErr \o ")"

\* C3, reached: the probe failed, the Dial inside Send failed at EHLO, and Send
\* returned the reconnect error.
C3_ReconnectFailed ==
    /\ last.op = "Send"
    /\ Connects = 1
    /\ last.meta.dialErr = ErrReply("EHLO")
    /\ last.err = ErrReconnect(ErrReply("EHLO"))

\* C4: Send on a client that holds no session (s.client is nil) returns the
\* not-connected error, Send with a nil mail on a client that holds one
\* returns the nil-message error; neither panics and neither puts anything
\* on the transport.
C4_SendGuards ==
    last.op = "Send" =>
        /\ ~last.hadClient
           => (last.err = "wail: connection with the smtp server is not established"
               /\ wire = <<>>)
        /\ (last.hadClient /\ last.mail = "nil")
           => (last.err = "wail: an empty mail object has been provided"
               /\ wire = <<>>)

\* C4, reached: a nil mail handed to a client that holds a session.
C4_NilMailOnConnected ==
    /\ last.op = "Send"
    /\ last.hadClient
    /\ last.mail = "nil"
    /\ last.err = ErrNilMail

\* C5: Close returns the not-connected error and issues no QUIT as long as no
\* Dial on this client has returned nil; once one has, Close issues QUIT and
\* returns what the transport said.  The code stores the client before Dial
\* has succeeded: this formula is violated.
C5_CloseNeedsSuccessfulDial ==
    last.op = "Close" =>
        IF dialed THEN Has("QUIT") /\ last.err # ErrNotConnected
        ELSE last.err = ErrNotConnected /\ ~Has("QUIT")

\* C5, the failing case: no Dial has succeeded, yet Close issued QUIT.
C5_QuitWithoutSuccessfulDial ==
    /\ last.op = "Close"
    /\ ~dialed
    /\ Has("QUIT")
    /\ last.err = Nil

\* Whether the AUTH list adv names none of the mechanisms Dial can run.
NoExecutable(adv) ==
    \/ adv = Nil
    \/ ~(Contains(adv, "LOGIN") \/ Contains(adv, "CRAM-MD5") \/ Contains(adv, "PLAIN"))

\* C6: when Dial, with NeedAuth set and both credentials present, reads an
\* AUTH list that names no mechanism it can run, or finds no AUTH extension at
\* all, it issues QUIT and returns the unsupported-method error, without a
\* panic and without an authentication exchange.  The code calls c.Auth(nil)
\* when the extension is absent: this formula is violated.
C6_NoMechanismIsAnError ==
    (last.op = "Dial" /\ last.meta.adv # "-" /\ NoExecutable(last.meta.adv)) =>
        /\ last.err = ErrNoAuthMethod
        /\ Has("QUIT")
        /\ NoAuthExchange

\* C6, the failing case: the server advertised no AUTH and Dial panicked.
C6_AuthWithoutMechanism ==
    /\ last.op = "Dial"
    /\ last.meta.adv = Nil
    /\ last.err = Panic
    /\ ~Has("QUIT")

\* C7: the mechanism a Dial selects from the AUTH list it read is the first of
\* LOGIN, CRAM-MD5, XOAUTH2, PLAIN that occurs in the list as a substring; an
\* AUTH command, if one is issued, names the selected mechanism; and when the
\* first is XOAUTH2, Dial selects nothing, starts no authentication exchange,
\* issues QUIT and returns the unsupported-method error.
C7_SelectionPriority ==
    LET a == last.meta.adv
        m == last.meta.mech
    IN  (a # "-" /\ a # Nil) =>
            /\ Contains(a, "LOGIN") => m = "LOGIN"
            /\ (~Contains(a, "LOGIN") /\ Contains(a, "CRAM-MD5")) => m = "CRAM-MD5"
            /\ (~Contains(a, "LOGIN") /\ ~Contains(a, "CRAM-MD5")
                /\ Contains(a, "XOAUTH2"))
               => /\ m = ""
                  /\ last.meta.dialErr = "wail: can't retrieve authentication method"
                  /\ Has("QUIT")
                  /\ NoAuthExchange
            /\ (~Contains(a, "LOGIN") /\ ~Contains(a, "CRAM-MD5")
                /\ ~Contains(a, "XOAUTH2") /\ Contains(a, "PLAIN"))
               => m = "PLAIN"
            /\ \A i \in DOMAIN wire :
                   IsAuthCmd(wire[i].cmd) => wire[i].cmd = "AUTH " \o m

\* C7, reached: the list names PLAIN and XOAUTH2, and Dial failed with QUIT.
C7_XoAuth2BeforePlain ==
    /\ last.op = "Dial"
    /\ last.meta.adv = "PLAIN XOAUTH2"
    /\ last.meta.mech = ""
    /\ last.err = ErrNoAuthMethod
    /\ Has("QUIT")

\* The greeting and the negotiation of the last Dial went through: EHLO was
\* accepted, and STARTTLS too if it was issued.
Negotiated ==
    /\ Done("EHLO")
    /\ \A i \in DOMAIN wire : wire[i].cmd \in {"EHLO", "STARTTLS"} => wire[i].ok

\* C8: a Dial with NeedAuth set and an empty login or password does not return
\* nil and issues no AUTH command; when it got through the greeting and the
\* negotiation it returns the error that names the missing field, the login
\* when the login is empty and the password when only the password is.
C8_CredentialsMissing ==
    (/\ last.op = "Dial"
     /\ cfg # NilPtr
     /\ cfg.NeedAuth
     /\ (cfg.Login = "" \/ cfg.Password = "")) =>
        /\ last.err # Nil
        /\ NoAuthExchange
        /\ Negotiated =>
              /\ cfg.Login = ""
                 => (last.err = ErrNoLogin /\ Contains(last.err, "login"))
              /\ cfg.Login # ""
                 => (last.err = ErrNoPassword /\ Contains(last.err, "password"))

\* C8, reached: the login is set, the password is not, and Dial said so.
C8_PasswordMissing ==
    /\ last.op = "Dial"
    /\ cfg # NilPtr
    /\ cfg.NeedAuth
    /\ cfg.Login # ""
    /\ cfg.Password = ""
    /\ Negotiated
    /\ last.err = "wail: sender password is not specified"

\* C9: a Dial on a client made without a configuration returns the
\* config-missing error, opens no connection, issues nothing, and leaves
\* every field of the client as it was.
C9_DialWithoutConfig ==
    [][(cfg = NilPtr /\ last'.op = "Dial") =>
          /\ last'.err = "wail: smtp config is not provided"
          /\ wire' = <<>>
          /\ cfg' = cfg
          /\ client' = client
          /\ orphans' = orphans
          /\ racing' = racing
          /\ dialed' = dialed]_vars

\* C9, reached: Dial returned the config-missing error.
C9_ConfigMissingReturned ==
    /\ last.op = "Dial"
    /\ cfg = NilPtr
    /\ client = NilPtr
    /\ last.err = ErrNoConfig

\* C10: when the mechanism selected is LOGIN, every AUTH command and every
\* response of the exchange goes over an encrypted channel; and a Dial that
\* selected LOGIN on a channel that is not encrypted issues no AUTH command
\* and no response and returns the unencrypted-connection error.
C10_LoginOnlyOverTLS ==
    last.meta.mech = "LOGIN" =>
        /\ \A i \in DOMAIN wire :
               (IsAuthCmd(wire[i].cmd) \/ wire[i].cmd = "RESP") => wire[i].tls
        /\ (client # NilPtr /\ ~client.tls)
           => /\ last.meta.dialErr = "wail: unencrypted connection"
              /\ NoAuthExchange
              /\ last.op = "Dial" => last.err = "wail: unencrypted connection"

\* C10, reached: LOGIN selected on a plain connection, and Dial refused.
C10_LoginRefusedOnPlain ==
    /\ last.op = "Dial"
    /\ last.meta.mech = "LOGIN"
    /\ ~client.tls
    /\ NoAuthExchange
    /\ last.err = ErrUnencrypted

\* Whether the wire w shows the command cmd.
HasIn(w, cmd) == \E i \in DOMAIN w : w[i].cmd = cmd

\* C11: the connect-timeout error is returned only by a Dial whose
\* ConnectTimeout is not zero, after the connection was opened and before
\* anything else was issued, and that Dial (called directly or by Send) leaves
\* the stored client as it was; a handshake that completes after the timer
\* changes neither the client nor the configuration nor the result of any
\* call; and a Dial whose connection opened and whose handshake came in first
\* with a greeting goes on to EHLO.
C11_TimeoutRace ==
    [][/\ (Ready /\ last'.op \in {"Dial", "Send"} /\ last'.meta.dials = 1
           /\ last'.meta.dialErr = "wail: connection timeout")
          => /\ cfg # NilPtr
             /\ cfg.ConnectTimeout # 0
             /\ client' = client
             /\ dialed' = dialed
             /\ HasIn(wire', "CONNECT")
             /\ ~HasIn(wire', "EHLO")
             /\ racing' = racing + 1
       /\ racing' < racing
          => (client' = client /\ cfg' = cfg /\ last' = last /\ wire' = wire)
       /\ (Ready /\ last'.op = "Dial" /\ wire' # <<>> /\ wire'[1].ok
           /\ last'.err \notin {"wail: connection timeout", ErrGreeting})
          => HasIn(wire', "EHLO")]_vars

\* C11, reached: a Dial on a client that holds a session returned on the
\* timer, and the handshake it left behind has completed since.
C11_LateHandshakeAfterTimeout ==
    /\ last.op = "Dial"
    /\ last.err = ErrTimeout
    /\ client # NilPtr
    /\ client.open
    /\ racing = 0
    /\ stuck = 1

\* C12: STARTTLS is issued at most once in a Dial, only in TLS mode and only
\* when the EHLO reply advertised it, after the accepted EHLO and before any
\* AUTH command or response; in TLS mode with STARTTLS advertised it is
\* issued; and when it fails, nothing of an authentication follows, QUIT is
\* sent after it and Dial returns the error of StartTLS.
C12_StartTLSOrder ==
    /\ Cardinality({i \in DOMAIN wire : wire[i].cmd = "STARTTLS"}) <= 1
    /\ \A i \in DOMAIN wire :
          wire[i].cmd = "STARTTLS" =>
             /\ cfg.EncryptType = EncryptTLS
             /\ last.meta.tlsExt = "yes"
             /\ \E j \in 1..(i - 1) : wire[j].cmd = "EHLO" /\ wire[j].ok
             /\ \A j \in 1..(i - 1) :
                   ~IsAuthCmd(wire[j].cmd) /\ wire[j].cmd # "RESP"
             /\ ~wire[i].ok
                => /\ last.meta.dialErr = "smtp: STARTTLS failed"
                   /\ last.op = "Dial" => last.err = "smtp: STARTTLS failed"
                   /\ \E j \in (i + 1)..Len(wire) : wire[j].cmd = "QUIT"
                   /\ NoAuthExchange
    /\ (last.meta.tlsExt = "yes" /\ cfg.EncryptType = EncryptTLS) => Has("STARTTLS")

\* C12, reached: STARTTLS was refused, and Dial sent QUIT and returned the error.
C12_StartTLSRefused ==
    /\ last.op = "Dial"
    /\ last.err = ErrReply("STARTTLS")
    /\ \E i \in DOMAIN wire : wire[i].cmd = "STARTTLS" /\ ~wire[i].ok
    /\ Has("QUIT")

\* C13: on the connection a Dial opened, a command goes over an encrypted
\* channel only in SSL mode, or in TLS mode after a STARTTLS that succeeded
\* earlier in that Dial; so EHLO is encrypted in SSL mode only, and nothing is
\* encrypted in None mode.  The code wraps the connection in tls.Client in
\* TLS mode as well, before smtp.NewClient: this formula is violated.
C13_WrapOnlyInSSL ==
    \A i \in DOMAIN wire :
        (wire[i].gen = 1 /\ wire[i].cmd # "CONNECT" /\ wire[i].tls) =>
            \/ cfg.EncryptType = EncryptSSL
            \/ /\ cfg.EncryptType = EncryptTLS
               /\ \E j \in 1..(i - 1) : wire[j].cmd = "STARTTLS" /\ wire[j].ok

\* C13, the failing case: in TLS mode EHLO already went over TLS, before any
\* STARTTLS.
C13_TLSModeWrappedAtOnce ==
    /\ last.op = "Dial"
    /\ cfg # NilPtr
    /\ cfg.EncryptType = EncryptTLS
    /\ \E i \in DOMAIN wire : wire[i].cmd = "EHLO" /\ wire[i].tls
    /\ ~Has("STARTTLS")

IsRcpt(e) == e.cmd = "RCPT TO"

Rcpts == SelectSeq(wire, IsRcpt)

\* Position of the first wire entry with the command, 0 when there is none.
FirstOf(cmd) ==
    IF Has(cmd) THEN CHOOSE i \in DOMAIN wire :
                         wire[i].cmd = cmd /\ \A j \in 1..(i - 1) : wire[j].cmd # cmd
    ELSE 0

\* C15: a Send whose MAIL FROM was accepted issued exactly one MAIL FROM, with
\* the sender login, before any RCPT; its RCPT commands are the addresses of
\* the envelope's recipient list from the first on, in list order, each on the
\* open session; all of them but the last were accepted; when the last one was
\* refused Send returned that refusal itself, issued no RCPT for the addresses
\* after it, no DATA and no QUIT, and left the stored session open; when none
\* was refused there is one RCPT for every address of the list.
C15_RcptInOrderStopAtRefusal ==
    (last.op = "Send" /\ Done("MAIL FROM")) =>
        LET m  == MailOf(last.mail)
            rc == Rcpts
            mf == FirstOf("MAIL FROM")
        IN  /\ Cardinality({i \in DOMAIN wire : wire[i].cmd = "MAIL FROM"}) = 1
            /\ wire[mf].arg = cfg.Login
            /\ wire[mf].live
            /\ \A i \in DOMAIN wire : IsRcpt(wire[i]) => (i > mf /\ wire[i].live)
            /\ last.mail \in MailNames \ {"nil"}
            /\ Len(rc) <= Len(m.recipients)
            /\ \A k \in DOMAIN rc : rc[k].arg = m.recipients[k]
            /\ \A k \in 1..(Len(rc) - 1) : rc[k].ok
            /\ IF Len(rc) > 0 /\ ~rc[Len(rc)].ok
               THEN /\ last.err = ErrReply("RCPT")
                    /\ ~Has("DATA")
                    /\ \A i \in DOMAIN wire : i > mf => wire[i].cmd # "QUIT"
                    /\ client # NilPtr
                    /\ client.open
               ELSE Len(rc) = Len(m.recipients)

\* C15, its case: the envelope with three recipients, the first accepted and
\* the second refused.
C15_SecondRcptRefused ==
    /\ last.op = "Send"
    /\ last.mail = "long"
    /\ Len(Rcpts) = 2
    /\ Rcpts[1].ok
    /\ ~Rcpts[2].ok
    /\ Rcpts[2].arg = "example2@example.com"
    /\ last.err = ErrReply("RCPT")

\* C16: a Send that got to read an envelope whose recipient list is empty
\* returned the no-recipients error and issued neither RCPT nor DATA; a Send
\* whose MAIL FROM was accepted did read its envelope, and one that did not
\* read it returned an error before any MAIL FROM was accepted; and a Send that
\* issued DATA or sent bytes was given an envelope whose recipient list is not empty.
C16_EmptyListNotSent ==
    last.op = "Send" =>
        /\ (last.mail = "fresh" =>
                /\ NoRecipients(MailOf("fresh"))
                /\ last.err = ErrNoRecipients
                /\ ~Has("RCPT TO")
                /\ ~Has("DATA")
                /\ ~Has("BYTES"))
        /\ (Done("MAIL FROM") => last.mail \in MailNames \ {"nil"})
        /\ (last.mail = "some" => (last.err # Nil /\ ~Done("MAIL FROM")))
        /\ ((Has("DATA") \/ Has("BYTES") \/ Has(".")) =>
                /\ last.mail \in MailNames \ {"nil"}
                /\ ~NoRecipients(MailOf(last.mail)))

\* C16, its case: MAIL FROM was accepted and the envelope has no recipient.
C16_FreshEnvelopeRefused ==
    /\ last.op = "Send"
    /\ last.mail = "fresh"
    /\ Done("MAIL FROM")
    /\ last.err = ErrNoRecipients

\* ------------------------------------------------------------------ the envelope's properties

\* Whether the envelope has the header field.
FieldSet(m, k) == k \in DOMAIN m.mb.header

\* The call that just returned was a To that succeeded.
ToSucceeded(c) == c.op = "To" /\ c.err = Nil

\* C17: the To field of an envelope is set by a To call that succeeded and by
\* nothing else, and it stays set.  GetResultMessage on an envelope without
\* it returns the missing-To error and no bytes, whatever Cc and Bcc hold, and
\* a Send of such an envelope returns an error without DATA or bytes on the
\* wire.  On an envelope with the To field GetResultMessage fails only for
\* the size, never when the limit is zero, and the text it returns has the
\* line "To:" with the field's value.
C17_NoToNoBytes ==
    [][/\ (ToSucceeded(call') => FieldSet(mail', "to"))
       /\ (FieldSet(mail, "to") => FieldSet(mail', "to"))
       /\ ((~FieldSet(mail, "to") /\ FieldSet(mail', "to")) => ToSucceeded(call'))
       /\ ((call'.op = "GetResultMessage" /\ ~FieldSet(mail', "to")) =>
              (call'.err = ErrNoTo /\ call'.out = Nil))
       /\ ((last'.op = "Send" /\ ~FieldSet(mail', "to")) =>
              (last'.err # Nil /\ ~Has("DATA")' /\ ~Has("BYTES")'))
       /\ ((call'.op = "GetResultMessage" /\ FieldSet(mail', "to")) =>
              /\ call'.err \in {Nil, ErrTooLarge(call'.arg)}
              /\ (call'.arg = 0 => call'.err = Nil)
              /\ (call'.err = Nil =>
                     Contains(call'.out,
                              "\r\nTo:" \o mail'.mb.header["to"] \o "\r\n")))
      ]_vars

\* C17, its case: GetResultMessage on an envelope with Cc and Bcc but
\* without To.
C17_OnlyCopiesFinalized ==
    /\ call.op = "GetResultMessage"
    /\ ~FieldSet(mail, "to")
    /\ FieldSet(mail, "cc")
    /\ FieldSet(mail, "bcc")
    /\ call.err = ErrNoTo

\* The length of the text the envelope renders to at the moment of the call.
AssembledLen(m) == Len(Assemble(m.mb, CHOOSE d \in Clock : TRUE))

\* C18: GetResultMessage(max) on an envelope with the To field returns the
\* assembled text, and no error, exactly when max is zero or the length of
\* the text is at most max; when the length is greater than a max that is
\* not zero it returns no bytes and the too-large error with max in it.
C18_SizeLimit ==
    (call.op = "GetResultMessage" /\ FieldSet(mail, "to")) =>
        LET n   == AssembledLen(mail)
            max == call.arg
        IN  /\ (call.out # Nil) <=> (max = 0 \/ n <= max)
            /\ (call.out # Nil) => (call.err = Nil /\ Len(call.out) = n)
            /\ (max # 0 /\ n > max) =>
                   /\ call.out = Nil
                   /\ call.err = "wail: a max message size (" \o ToString(max)
                                     \o ") that the server can accept has been exceeded"

\* C18, its case: a text of exactly max bytes is returned.
C18_ExactlyMaxAccepted ==
    /\ call.op = "GetResultMessage"
    /\ FieldSet(mail, "to")
    /\ call.arg = AssembledLen(mail)
    /\ call.out # Nil
    /\ call.err = Nil

\* The line of a header field, nothing when the envelope has not got it.
FieldLine(m, name, k) ==
    IF FieldSet(m, k) THEN name \o ":" \o m.mb.header[k] \o "\r\n" ELSE ""

\* The Content-Type and body block GetResultMessage ends the text with.
Block(m) ==
    IF FieldSet(m, m.mb.contentType) THEN m.mb.header[m.mb.contentType] \o "\r\n"
    ELSE ""

\* The block of a text message as the envelope's builder renders it.
BlockOf(msg, m) ==
    "Content-Type: " \o msg.ctype \o "; charset=" \o m.cfg.Charset \o "\r\n"
        \o "Content-Transfer-Encoding: " \o m.cfg.Encoding \o "\r\n\r\n"
        \o EncodeBody(m.mb, msg.text) \o "\r\n"

\* C19: the text GetResultMessage returns is the lines Date, Subject, From
\* and To, then the Cc line if the envelope has the Cc field, then the Bcc
\* line if it has the Bcc field, then "MIME-Version: 1.0", then the block of
\* the message, and nothing else.  The Cc field is set by a CopyTo that
\* succeeded and the Bcc field by a BlindCopyTo that succeeded, and by nothing
\* else; the block is that of the message of the latest SetMessage, and no
\* other call changes it.
C19_FieldOrder ==
    [][/\ ((call'.op = "GetResultMessage" /\ call'.out # Nil) =>
              call'.out = "Date:" \o (CHOOSE d \in Clock : TRUE) \o "\r\n"
                              \o "Subject:" \o Hdr(mail'.mb, "subject") \o "\r\n"
                              \o "From:" \o Hdr(mail'.mb, "from") \o "\r\n"
                              \o "To:" \o Hdr(mail'.mb, "to") \o "\r\n"
                              \o FieldLine(mail', "Cc", "cc")
                              \o FieldLine(mail', "Bcc", "bcc")
                              \o "MIME-Version: 1.0\r\n"
                              \o Block(mail'))
       /\ (FieldSet(mail', "cc") # FieldSet(mail, "cc") =>
              (call'.op = "CopyTo" /\ call'.err = Nil /\ FieldSet(mail', "cc")))
       /\ (FieldSet(mail', "bcc") # FieldSet(mail, "bcc") =>
              (call'.op = "BlindCopyTo" /\ call'.err = Nil /\ FieldSet(mail', "bcc")))
       /\ (call'.op = "SetMessage" => Block(mail') = BlockOf(call'.arg, mail'))
       /\ (call'.op # "SetMessage" => Block(mail') = Block(mail))
      ]_vars

\* C19, its case: an envelope with To, Cc and Bcc, to which an HTML message
\* and then a plain one were attached, is rendered.
C19_AllFieldsRendered ==
    /\ call.op = "GetResultMessage"
    /\ call.out # Nil
    /\ FieldSet(mail, "cc")
    /\ FieldSet(mail, "bcc")
    /\ FieldSet(mail, "subject")
    /\ FieldSet(mail, "text/html")
    /\ mail.mb.contentType = "text/plain"
    /\ FieldSet(mail, "text/plain")

\* The arguments the claim lists: the empty string, a token of punctuation
\* only, a string of digits only, "<>", a string with a space in it, an
\* address of more than 254 characters.
Alphanumerics ==
    {SubSeq(AtextChars, i, i) : i \in 1..62}

Rejectable(a) ==
    \/ a = ""
    \/ \A i \in 1..Len(a) : SubSeq(a, i, i) \notin Alphanumerics
    \/ \A i \in 1..Len(a) : IsDigit(SubSeq(a, i, i))
    \/ a = "<>"
    \/ Contains(a, " ")
    \/ Len(a) > MaxAddrLen

IsAddressCall(c) == c.op \in {"To", "CopyTo", "BlindCopyTo"}

\* C20: whatever calls were made, every address in the recipient list is at
\* most 254 characters long and is one mail.ParseAddress accepts, and a To,
\* CopyTo or BlindCopyTo given one of the arguments the claim lists returned
\* an error.  mail.ParseAddress accepts a display name before the address
\* and white space around it, and the call appends the argument as it was
\* given: for a string with spaces of that form this formula is violated.
C20_RecipientsValid ==
    /\ \A i \in DOMAIN mail.recipients :
          /\ Len(mail.recipients[i]) <= MaxAddrLen
          /\ ParseAddressOk(mail.recipients[i])
    /\ (IsAddressCall(call) /\ \E i \in DOMAIN call.arg : Rejectable(call.arg[i]))
          => call.err # Nil

\* C20, the failing case: To was given a display name with an address, a
\* string with spaces; it returned nil and the string is in the recipient list.
C20_StringWithSpacesAccepted ==
    /\ call.op = "To"
    /\ call.arg = <<"John Doe <john@example.com>">>
    /\ Contains(call.arg[1], " ")
    /\ call.err = Nil
    /\ \E i \in DOMAIN mail.recipients :
          mail.recipients[i] = "John Doe <john@example.com>"

\* The header of the envelope without one field.
HeaderBut(m, k) == [x \in DOMAIN m.mb.header \ {k} |-> m.mb.header[x]]

\* The value a field has after one call of the setter on a new envelope.
OnceTo(e) == To(NewMail(NilPtr), e).m.mb.header["to"]

OnceCopyTo(e) == CopyTo(NewMail(NilPtr), e).m.mb.header["cc"]

OnceBlindCopyTo(e) == BlindCopyTo(NewMail(NilPtr), e).m.mb.header["bcc"]

OnceSetSubject(subj) == SetSubject(NewMail(NilPtr), subj).mb.header["subject"]

\* C21: a To, CopyTo or BlindCopyTo that succeeded, and a SetSubject, leave
\* their header field with the value that one such call with the same
\* arguments gives on a new envelope, whatever the field held before and
\* however often the call was made, and leave every other field as it was.
C21_SettersOverwrite ==
    [][/\ ((call'.op = "To" /\ call'.err = Nil) =>
              /\ mail'.mb.header["to"] = OnceTo(call'.arg)
              /\ HeaderBut(mail', "to") = HeaderBut(mail, "to"))
       /\ ((call'.op = "CopyTo" /\ call'.err = Nil) =>
              /\ mail'.mb.header["cc"] = OnceCopyTo(call'.arg)
              /\ HeaderBut(mail', "cc") = HeaderBut(mail, "cc"))
       /\ ((call'.op = "BlindCopyTo" /\ call'.err = Nil) =>
              /\ mail'.mb.header["bcc"] = OnceBlindCopyTo(call'.arg)
              /\ HeaderBut(mail', "bcc") = HeaderBut(mail, "bcc"))
       /\ (call'.op = "SetSubject" =>
              /\ mail'.mb.header["subject"] = OnceSetSubject(call'.arg)
              /\ HeaderBut(mail', "subject") = HeaderBut(mail, "subject"))
      ]_vars

\* C21, its case: a second To with other addresses has succeeded; the
\* recipient list still holds the address of the first, the To field only
\* those of the second.
C21_SecondToReplaced ==
    /\ call.op = "To"
    /\ call.err = Nil
    /\ call.arg = <<"example1@example.com", "example2@example.com">>
    /\ mail.recipients[1] = "John Doe <john@example.com>"
    /\ ~FieldSet(mail, "cc")
    /\ ~FieldSet(mail, "bcc")
    /\ mail.mb.header["to"] = "<example1@example.com>,<example2@example.com>"

\* Whether the address is one of those in the envelope's To, Cc or Bcc field.
InAddressFields(m, a) ==
    \E k \in {"to", "cc", "bcc"} :
        FieldSet(m, k) /\ Contains(m.mb.header[k], "<" \o a \o ">")

\* C22: every address of the recipient list is in the To, the Cc or the Bcc
\* field the envelope has now, every address of the call that just succeeded
\* is in the recipient list, and a Send issues RCPT only for addresses that
\* are in one of the three fields.  A setter replaces its field but only
\* appends to the recipient list, so the addresses of an earlier To stay in
\* the list after a second To: this formula is violated.
C22_RecipientsAreHeaderUnion ==
    /\ \A i \in DOMAIN mail.recipients : InAddressFields(mail, mail.recipients[i])
    /\ (IsAddressCall(call) /\ call.err = Nil) =>
           \A i \in DOMAIN call.arg :
               \E j \in DOMAIN mail.recipients : mail.recipients[j] = call.arg[i]
    /\ last.op = "Send" =>
           \A i \in DOMAIN wire :
               wire[i].cmd = "RCPT TO" => InAddressFields(mail, wire[i].arg)

\* C22, the failing case: Send issued an accepted RCPT for an address that
\* is in none of the three fields of the envelope it sent.
C22_RcptForReplacedAddress ==
    /\ last.op = "Send"
    /\ \E i \in DOMAIN wire :
          /\ wire[i].cmd = "RCPT TO"
          /\ wire[i].ok
          /\ ~InAddressFields(mail, wire[i].arg)

\* Whether s starts with p.
HasPrefix(s, p) == Len(s) >= Len(p) /\ SubSeq(s, 1, Len(p)) = p

\* The charset and the encoding an envelope created with configuration c is
\* to have when the defaults for unset fields are UTF-8 and Base64.
WantCharset(c) == IF c = NilPtr \/ c.Charset = "" THEN "UTF-8" ELSE c.Charset

WantEncoding(c) == IF c = NilPtr \/ c.Encoding = "" THEN "base64" ELSE c.Encoding

\* C23: a text message set on an envelope right after NewMail(c) renders with
\* the charset and the transfer encoding of c, and with UTF-8 and Base64 for
\* the fields c leaves unset (all of them when c is nil); in Base64 the body
\* "Hello, World" is SGVsbG8sIFdvcmxk.  NewMail gives a non-nil configuration
\* without Encoding quoted-printable, so this formula is violated.
C23_UnsetFieldsRenderDefaults ==
    [][(call.op = "NewMail" /\ call'.op = "SetMessage") =>
          LET head == "Content-Type: text/plain; charset=" \o WantCharset(call.arg)
                          \o "\r\n" \o "Content-Transfer-Encoding: "
                          \o WantEncoding(call.arg) \o "\r\n" \o "\r\n"
          IN  /\ HasPrefix(call'.out, head)
              /\ WantEncoding(call.arg) = "base64" =>
                     call'.out = head \o "SGVsbG8sIFdvcmxk"
              /\ Hdr(mail'.mb, "text/plain") = call'.out]_vars

\* C23, the failing case: NewMail was given a configuration without Encoding
\* and the envelope's builder encodes quoted-printable.
C23_UnsetEncodingIsQuotedPrintable ==
    /\ call.op = "NewMail"
    /\ call.arg # NilPtr
    /\ call.arg.Encoding = ""
    /\ mail.mb.encoding = "quoted-printable"
    /\ mail.cfg.Encoding = "quoted-printable"

\* The address list folded by the length of the current line: a CRLF goes
\* before address i exactly when the text since the last CRLF (n characters)
\* with the token "<addr>," appended would be longer than lineLengthLimit.
RECURSIVE FoldByLine(_, _, _, _)
FoldByLine(addr, i, out, n) ==
    IF i > Len(addr) THEN out
    ELSE LET token == "<" \o addr[i] \o ">," IN
         IF n + Len(token) > lineLengthLimit
         THEN FoldByLine(addr, i + 1, out \o "\r\n" \o token, Len(token))
         ELSE FoldByLine(addr, i + 1, out \o token, n + Len(token))

\* The same without the comma after the last address.
FoldedByLine(addr) ==
    LET out == FoldByLine(addr, 1, "", 0) IN SubSeq(out, 1, Len(out) - 1)

\* C24: makeAddrString starts a new line before an address exactly when its
\* token would make the current line longer than 76 characters, for every
\* address of the list: its result is the list folded by the length of the
\* current line.  makeAddrString measures the whole text built so far, so
\* after the first fold it folds before every address: this formula is
\* violated.
C24_FoldsByCurrentLine ==
    call.op = "makeAddrString" => call.out = FoldedByLine(call.arg)

\* C24, the failing case: five addresses of the tests; the fifth fits on the
\* line of the fourth and makeAddrString still puts it on a line of its own.
C24_FoldBeforeAddressThatFits ==
    /\ call.op = "makeAddrString"
    /\ call.arg = SubSeq(Examples, 1, 5)
    /\ call.out = "<example1@example.com>,<example2@example.com>,<example3@example.com>,"
                      \o "\r\n" \o "<example4@example.com>,"
                      \o "\r\n" \o "<example5@example.com>"
    /\ Len("<example4@example.com>,<example5@example.com>,") <= lineLengthLimit

\* s without its CRLF pairs.
RECURSIVE WithoutCRLF(_)
WithoutCRLF(s) ==
    LET at == {i \in 1..(Len(s) - 1) : SubSeq(s, i, i + 1) = "\r\n"} IN
    IF at = {} THEN s
    ELSE LET i == CHOOSE j \in at : \A k \in at : j <= k
         IN  SubSeq(s, 1, i - 1) \o WithoutCRLF(SubSeq(s, i + 2, Len(s)))

\* "<a1>,<a2>,...,<an>" for the addresses from i on.
RECURSIVE AngleList(_, _)
AngleList(addr, i) ==
    IF i > Len(addr) THEN ""
    ELSE "<" \o addr[i] \o ">" \o (IF i < Len(addr) THEN "," ELSE "")
             \o AngleList(addr, i + 1)

\* C25: for a non-empty list the result of makeAddrString without its CRLF
\* pairs is "<a1>,<a2>,...,<an>": every address in angle brackets, in the
\* order given, one comma between two addresses and none after the last; one
\* address gives "<a>" (after a CRLF when the address alone does not fit on a
\* line) and the first two of the tests "<a>,<b>".
C25_AddressesInOrderNoTrailingComma ==
    call.op = "makeAddrString" =>
        /\ WithoutCRLF(call.out) = AngleList(call.arg, 1)
        /\ Len(call.arg) = 1 => call.out = "<" \o call.arg[1] \o ">"
                                    \/ call.out = "\r\n" \o "<" \o call.arg[1] \o ">"
        /\ call.arg = SubSeq(Examples, 1, 2) =>
               call.out = "<example1@example.com>,<example2@example.com>"

\* C25, its case: a list that makeAddrString folded.
C25_FoldedListRendered ==
    /\ call.op = "makeAddrString"
    /\ Len(call.arg) >= 4
    /\ Contains(call.out, "\r\n")
    /\ WithoutCRLF(call.out) # call.out

\* The places in s where a CRLF pair starts.
FoldsAt(s) == {i \in 1..(Len(s) - 1) : SubSeq(s, i, i + 1) = "\r\n"}

\* C26 as the specification states it: every CRLF that makeAddrString puts
\* after an address follows the closing bracket of that address, with no
\* comma in between.  makeAddrString appends the comma with the address and
\* the CRLF before the next one, as TestMakeAddrString expects: this formula
\* is violated.
C26_FoldAfterBracket ==
    call.op = "makeAddrString" =>
        \A i \in FoldsAt(call.out) : i > 1 => SubSeq(call.out, i - 1, i - 1) = ">"

\* C26, amended: every CRLF that makeAddrString puts after an address follows
\* the comma of that address, so the line before it ends with ">,"; for the
\* four addresses of the tests the only fold is after the third address and
\* its comma.
C26_FoldAfterComma ==
    call.op = "makeAddrString" =>
        /\ \A i \in FoldsAt(call.out) :
               i > 1 => i > 2 /\ SubSeq(call.out, i - 2, i - 1) = ">,"
        /\ call.arg = SubSeq(Examples, 1, 4) =>
               call.out = "<example1@example.com>,<example2@example.com>,"
                              \o "<example3@example.com>," \o "\r\n"
                              \o "<example4@example.com>"

\* C26, its case: the four addresses of the tests, folded once.
C26_FourAddressesFolded ==
    /\ call.op = "makeAddrString"
    /\ call.arg = SubSeq(Examples, 1, 4)
    /\ Cardinality(FoldsAt(call.out)) = 1

\* Whether s has no white space.
NoSpace(s) == \A i \in 1..Len(s) : ~IsSpace(SubSeq(s, i, i))

\* C27: splitHeader applied to a text that splitHeader returned gives that
\* text again, and a text without white space of at most 76 characters comes
\* back unchanged.
C27_FoldingIdempotent ==
    [][call'.op = "splitHeader" =>
          /\ call.op = "splitHeader" => call'.out = call.out
          /\ (NoSpace(call'.arg) /\ Len(call'.arg) <= lineLengthLimit) =>
                 call'.out = call'.arg]_vars

\* C27, its case: the long word of TestSplitHeader, folded into two lines,
\* has been folded again.
C27_FoldedTwice ==
    /\ call.op = "splitHeader"
    /\ call.arg = SubSeq(LongWord, 1, lineLengthLimit) \o "\r\n"
                      \o SubSeq(LongWord, lineLengthLimit + 1, Len(LongWord))
    /\ call.out = call.arg

\* The lines of s: the texts between its CRLF pairs.
RECURSIVE LinesOf(_)
LinesOf(s) ==
    IF FoldsAt(s) = {} THEN <<s>>
    ELSE LET i == CHOOSE j \in FoldsAt(s) : \A k \in FoldsAt(s) : j <= k
         IN  <<SubSeq(s, 1, i - 1)>> \o LinesOf(SubSeq(s, i + 2, Len(s)))

\* The texts of a sequence one after the other.
RECURSIVE Concat(_)
Concat(seq) == IF seq = <<>> THEN "" ELSE Head(seq) \o Concat(Tail(seq))

\* A token in consecutive pieces of lineLengthLimit characters, the last one
\* with what is left.
Chunks(t) ==
    [k \in 1..((Len(t) + lineLengthLimit - 1) \div lineLengthLimit) |->
        SubSeq(t, (k - 1) * lineLengthLimit + 1,
               IF k * lineLengthLimit < Len(t) THEN k * lineLengthLimit ELSE Len(t))]

\* The pieces of every token, in the order of the tokens.
RECURSIVE ChunksOfAll(_)
ChunksOfAll(toks) ==
    IF toks = <<>> THEN <<>> ELSE Chunks(Head(toks)) \o ChunksOfAll(Tail(toks))

\* C28: for a text with at least one token, the result of splitHeader is
\* lines with a CRLF between them and none after the last; no line is longer
\* than 76 characters; the lines are the tokens of the text in order, a token
\* longer than 76 characters as its consecutive pieces of 76 characters; and
\* the lines put together are the tokens put together.
C28_FoldedLines ==
    (call.op = "splitHeader" /\ Fields(call.arg) # <<>>) =>
        LET lines == LinesOf(call.out)
            toks == Fields(call.arg)
        IN  /\ \A i \in DOMAIN lines :
                   Len(lines[i]) >= 1 /\ Len(lines[i]) <= lineLengthLimit
            /\ ~(Len(call.out) >= 2
                   /\ SubSeq(call.out, Len(call.out) - 1, Len(call.out)) = "\r\n")
            /\ lines = ChunksOfAll(toks)
            /\ Concat(lines) = Concat(toks)

\* C28, its case: three tokens, one of them longer than a line, folded into
\* four lines.
C28_LongTokenAmongOthers ==
    /\ call.op = "splitHeader"
    /\ Len(Fields(call.arg)) = 3
    /\ \E i \in 1..3 : Len(Fields(call.arg)[i]) > lineLengthLimit
    /\ Len(LinesOf(call.out)) = 4
    /\ call.arg # call.out

\* The hexadecimal digits of a quoted-printable escape.
HexDigits == "0123456789ABCDEF"

IsHex(ch) == \E d \in 1..16 : SubSeq(HexDigits, d, d) = ch

HexVal(ch) == (CHOOSE d \in 1..16 : SubSeq(HexDigits, d, d) = ch) - 1

\* Whether "=" at place i of s starts an escape "=XX" or a soft line break.
EscapeAt(s, i) ==
    /\ i + 2 <= Len(s)
    /\ \/ SubSeq(s, i + 1, i + 2) = "\r\n"
       \/ IsHex(SubSeq(s, i + 1, i + 1)) /\ IsHex(SubSeq(s, i + 2, i + 2))

\* The printable character with the given code.
CharOf(n) ==
    IF n <= 31 + Len(AsciiLow) THEN SubSeq(AsciiLow, n - 31, n - 31)
    ELSE SubSeq(AsciiHigh, n - 96, n - 96)

\* The text a quoted-printable text stands for: "=XX" is the character with
\* code XX, "=" CRLF is nothing, everything else is itself.
RECURSIVE QpDecode(_)
QpDecode(s) ==
    LET at == {i \in 1..Len(s) : SubSeq(s, i, i) = "="} IN
    IF at = {} THEN s
    ELSE LET i == CHOOSE j \in at : \A k \in at : j <= k
             rest == SubSeq(s, i + 3, Len(s))
         IN  IF SubSeq(s, i + 1, i + 2) = "\r\n"
             THEN SubSeq(s, 1, i - 1) \o QpDecode(rest)
             ELSE SubSeq(s, 1, i - 1)
                      \o CharOf(16 * HexVal(SubSeq(s, i + 1, i + 1))
                                   + HexVal(SubSeq(s, i + 2, i + 2)))
                      \o QpDecode(rest)

\* C29: with the quoted-printable encoding EncodeBody returns a
\* quoted-printable text of the body: every "=" in it starts an escape "=XX"
\* or a soft line break (so "=" of the body is "=3D"), no line is longer than
\* 76 characters or ends with a space, and the text decodes to the body.
\* qpEncode never fails on its buffer and returns the body as it is, so this
\* formula is violated.
C29_QuotedPrintableBody ==
    (call.op = "EncodeBody" /\ mail.mb.encoding = "quoted-printable") =>
        LET out == call.out
            lines == LinesOf(out)
        IN  /\ \A i \in 1..Len(out) : SubSeq(out, i, i) = "=" => EscapeAt(out, i)
            /\ \A i \in DOMAIN lines :
                   /\ Len(lines[i]) <= lineLengthLimit
                   /\ Len(lines[i]) > 0 =>
                          SubSeq(lines[i], Len(lines[i]), Len(lines[i])) # " "
            /\ QpDecode(out) = call.arg

\* C29, the failing case: the body "a=b" comes back as it is.
C29_RawBodyReturned ==
    /\ call.op = "EncodeBody"
    /\ mail.mb.encoding = "quoted-printable"
    /\ call.arg = "a=b"
    /\ call.out = "a=b"

\* The place part i of msg is to have: after the parts of smaller order and
\* after the parts of the same order that were inserted before it.
RankOf(msg, i) ==
    Cardinality({j \in DOMAIN msg : msg[j].order < msg[i].order})
        + Cardinality({j \in 1..i : msg[j].order = msg[i].order})

\* The parts of msg by ascending order, parts of equal order as inserted.
RankSorted(msg) ==
    [p \in 1..Len(msg) |-> msg[CHOOSE i \in DOMAIN msg : RankOf(msg, i) = p]]

\* The content types of the text parts in a rendered message, in the order
\* they are emitted.
EmittedTypes(out) ==
    LET mark == "Content-Type: text/"
        at == {i \in 1..(Len(out) - Len(mark) - 4) :
                  SubSeq(out, i, i + Len(mark) - 1) = mark}
        Nth(k) == CHOOSE i \in at : Cardinality({j \in at : j < i}) = k - 1
    IN  [k \in 1..Cardinality(at) |->
            IF SubSeq(out, Nth(k) + Len(mark), Nth(k) + Len(mark) + 3) = "html"
            THEN "text/html" ELSE "text/plain"]

\* C30: SetMessage with a multipart/alternative message emits the parts by
\* ascending order, parts of equal order in the order they were inserted,
\* whatever the insertion sequence was, and leaves the message in that
\* sequence; html of order 3 followed by plain of order 2 is emitted plain
\* first; setting the same message again emits the same text.
C30_PartsByOrderStable ==
    [][call'.op = "SetMessageAlt" =>
          LET want == RankSorted(call'.arg.msg) IN
          /\ call'.arg = alt
          /\ alt'.msg = want
          /\ EmittedTypes(call'.out) = [i \in DOMAIN want |-> want[i].text.ctype]
          /\ Hdr(mail'.mb, "multipart/alternative") = call'.out
          /\ (Len(want) = 2 /\ alt.msg[1].order = 3 /\ alt.msg[2].order = 2
                /\ alt.msg[1].text.ctype = "text/html"
                /\ alt.msg[2].text.ctype = "text/plain") =>
                 EmittedTypes(call'.out) = <<"text/plain", "text/html">>
          /\ call.op = "SetMessageAlt" =>
                 call'.out = call.out /\ alt'.msg = alt.msg]_vars

\* C30, its case: html of order 3, plain of order 2 and html of order 2 were
\* inserted in this sequence and the message was rendered plain, html, html.
C30_TiesKeepInsertionOrder ==
    /\ call.op = "SetMessageAlt"
    /\ [i \in DOMAIN call.arg.msg |-> call.arg.msg[i].order] = <<3, 2, 2>>
    /\ [i \in DOMAIN call.arg.msg |-> call.arg.msg[i].text.ctype]
           = <<"text/html", "text/plain", "text/html">>
    /\ [i \in DOMAIN alt.msg |-> alt.msg[i].order] = <<2, 2, 3>>
    /\ EmittedTypes(call.out) = <<"text/plain", "text/html", "text/html">>

\* The places in s where sub starts.
OccurrencesOf(s, sub) ==
    {i \in 1..(Len(s) - Len(sub) + 1) : SubSeq(s, i, i + Len(sub) - 1) = sub}

\* The k-th smallest element of a set of numbers.
NthOf(S, k) == CHOOSE i \in S : Cardinality({j \in S : j < i}) = k - 1

\* The text of s from place i up to the next CRLF.
UpToCRLF(s, i) ==
    LET ends == {j \in FoldsAt(s) : j >= i} IN
    SubSeq(s, i, (CHOOSE j \in ends : \A k \in ends : j <= k) - 1)

\* C31: a multipart/mixed message with n attachments renders as the
\* multipart/mixed header with the boundary, the text part after the first
\* "--boundary", then the attachments, each after its own "--boundary" as
\* application/octet-stream with its file name, in the order they were
\* added, and "--boundary--" once, at the end: 1 + n opening delimiters.
C31_MixedParts ==
    call.op = "SetMessageMix" =>
        LET m == call.arg
            out == call.out
            n == Len(m.attachments)
            opens == OccurrencesOf(out, middleBound)
            marker == middleBound \o "Content-Type: application/octet-stream" \o "\r\n"
                          \o "Content-Disposition: attachment; filename="
            files == OccurrencesOf(out, marker)
        IN  /\ HasPrefix(out, "Content-Type: multipart/mixed; boundary=" \o boundary
                                  \o "\r\n" \o "\r\n" \o middleBound
                                  \o "Content-Type: " \o m.text.ctype \o "; charset=")
            /\ Cardinality(opens) = 1 + n
            /\ OccurrencesOf(out, endBound) = {Len(out) - Len(endBound) + 1}
            /\ Cardinality(files) = n
            /\ \A k \in 1..n :
                   /\ NthOf(files, k) = NthOf(opens, k + 1)
                   /\ UpToCRLF(out, NthOf(files, k) + Len(marker)) = m.attachments[k].name
            /\ Hdr(mail.mb, "multipart/mixed") = out

\* C31, its case: two different attachments were added, the picture first,
\* and the message was rendered.
C31_TwoAttachmentsRendered ==
    /\ call.op = "SetMessageMix"
    /\ Len(call.arg.attachments) = 2
    /\ call.arg.attachments[1].name = "4fzj5r9pFbY.jpg"
    /\ call.arg.attachments[2].name = "1.csv"
    /\ call.arg.text.text = "Hello, World"
    /\ Cardinality(OccurrencesOf(call.out, middleBound)) = 3

\* The last call ran Dial (itself, or as the reconnect of Send) and that Dial
\* returned nil.
DialSucceeded == last.meta.dials > 0 /\ last.meta.dialErr = Nil

\* The connection dialed by the last call shows a whole authentication
\* exchange: an accepted AUTH command that names a mechanism Dial can run,
\* and every response that follows it accepted, with no abort ("*").
AuthCompleted ==
    \E i \in DOMAIN wire :
        /\ wire[i].gen = 1
        /\ wire[i].cmd \in {"AUTH LOGIN", "AUTH CRAM-MD5", "AUTH PLAIN"}
        /\ wire[i].ok
        /\ \A j \in (i + 1)..Len(wire) :
               (\A k \in (i + 1)..j : wire[k].cmd \in {"RESP", "*"})
                   => wire[j].cmd = "RESP" /\ wire[j].ok

\* C32: a Dial that returned nil with NeedAuth set has completed an
\* authentication exchange with the mechanism it selected on the connection it
\* opened, and the stored client is authenticated; a Dial with NeedAuth unset
\* issues no AUTH command and no response and never returns a missing-login or
\* missing-password error, whatever the server advertises and whatever the
\* credentials are.
C32_AuthExactlyWhenNeeded ==
    (cfg # NilPtr /\ last.meta.dials > 0) =>
        /\ (cfg.NeedAuth /\ DialSucceeded) =>
               /\ AuthCompleted
               /\ client.authed
               /\ last.op = "Dial" =>
                      /\ last.meta.mech \in {"LOGIN", "CRAM-MD5", "PLAIN"}
                      /\ Done("AUTH " \o last.meta.mech)
        /\ ~cfg.NeedAuth =>
               /\ NoAuthExchange
               /\ last.meta.dialErr \notin {ErrNoLogin, ErrNoPassword}
               /\ (DialSucceeded /\ client # NilPtr) => ~client.authed

\* C32, its case: NeedAuth is set and Dial returned nil after CRAM-MD5 on a
\* plain connection.
C32_DialAuthenticated ==
    /\ last.op = "Dial"
    /\ last.err = Nil
    /\ cfg.NeedAuth
    /\ last.meta.mech = "CRAM-MD5"
    /\ Done("AUTH CRAM-MD5")
    /\ client.authed

\* C32, its other case: NeedAuth is unset, no credentials are configured, the
\* server advertises mechanisms and Dial returned nil.
C32_DialWithoutAuth ==
    /\ last.op = "Dial"
    /\ last.err = Nil
    /\ ~cfg.NeedAuth
    /\ cfg.Login = ""

\* C33: authLogin.Next, while the server expects more data, answers a challenge
\* that contains "Username" with the login, a challenge that contains
\* "Password" and not "Username" with the password, and fails on any other
\* challenge with no response; when the server expects no more data it returns
\* no response and no error.
C33_LoginChallenges ==
    call.op = "authLogin.Next" =>
        LET a == call.arg
            hasUser == OccurrencesOf(a.fromServer, "Username") # {}
            hasPass == OccurrencesOf(a.fromServer, "Password") # {}
        IN  /\ (a.more /\ hasUser) => call.out = a.username /\ call.err = Nil
            /\ (a.more /\ hasPass /\ ~hasUser) =>
                   call.out = a.password /\ call.err = Nil
            /\ (a.more /\ ~hasPass /\ ~hasUser) =>
                   call.out = Nil /\ call.err = ErrUnknownCommand
            /\ ~a.more => call.out = Nil /\ call.err = Nil

\* C33, its case: a challenge that names both words, while more data is
\* expected, was answered with the login.
C33_BothWordsAnsweredWithLogin ==
    /\ call.op = "authLogin.Next"
    /\ call.arg.more
    /\ call.arg.fromServer = "Password for Username"
    /\ call.arg.username = "sender@example.com"
    /\ call.out = "sender@example.com"

\* The text of s after its first line.
AfterFirstLine(s) ==
    LET f == CHOOSE i \in FoldsAt(s) : \A j \in FoldsAt(s) : i <= j IN
    SubSeq(s, f + 2, Len(s))

\* The text the call wrote after DATA, "" when it wrote none.
BytesSent(w) ==
    LET b == SelectSeq(w, LAMBDA e : e.cmd = "BYTES") IN
    IF b = <<>> THEN "" ELSE b[1].arg

\* The addresses of the RCPT TO commands of a call, in the order issued.
RcptArgs(w) ==
    LET r == SelectSeq(w, IsRcpt) IN [i \in DOMAIN r |-> r[i].arg]

\* C34: a Send leaves the envelope's recipient list, every header field but
\* From (so To, Cc, Bcc, Subject and the rendered content block) and the rest
\* of the builder as they were; and of two Sends in a row of one envelope,
\* the second on the session the first one left live, both of which got to
\* DATA, the second issued the RCPT TO commands of the first, in the same
\* order, and when both wrote the message they wrote the same bytes from the
\* second line on, the first line being the Date line of each.
C34_SendKeepsEnvelope ==
    [][call'.op = "Send" =>
          /\ mail'.recipients = mail.recipients
          /\ mail'.cfg = mail.cfg
          /\ HeaderBut(mail', "from") = HeaderBut(mail, "from")
          /\ [mail'.mb EXCEPT !.header = <<>>] = [mail.mb EXCEPT !.header = <<>>]
          /\ (call.op = "Send" /\ last'.meta.noop = "ok") =>
                 /\ (HasIn(wire, "DATA") /\ HasIn(wire', "DATA")) =>
                        /\ RcptArgs(wire') = RcptArgs(wire)
                        /\ RcptArgs(wire') = mail.recipients
                 /\ (HasIn(wire, "BYTES") /\ HasIn(wire', "BYTES")) =>
                        /\ HasPrefix(BytesSent(wire), "Date:")
                        /\ HasPrefix(BytesSent(wire'), "Date:")
                        /\ AfterFirstLine(BytesSent(wire'))
                               = AfterFirstLine(BytesSent(wire))]_vars

\* C34, its case: the second Send of an envelope with To, Cc and Bcc returned
\* nil on the live session, a second later, after three RCPT TO commands.
C34_SentTwice ==
    /\ call.op = "Send"
    /\ call.err = Nil
    /\ last.meta.noop = "ok"
    /\ Len(Rcpts) = 3
    /\ FieldSet(call.arg, "from")
    /\ Contains(BytesSent(wire), "18:56:01")

\* C35: with NeedAuth set, every MAIL FROM a Send puts on an open connection
\* goes over a connection whose authentication exchange completed: the
\* stored client, which Send does not replace after MAIL FROM, is
\* authenticated.
C35_MailOnlyAfterAuth ==
    (cfg # NilPtr /\ cfg.NeedAuth /\ last.op = "Send") =>
        \A i \in DOMAIN wire :
            (wire[i].cmd = "MAIL FROM" /\ wire[i].live) =>
                client # NilPtr /\ client.authed

\* C35, the divergence: no Dial has returned nil, NeedAuth is set, and the
\* Send after the Dial that failed has found the stored connection alive
\* (NOOP accepted, no new Dial) and had MAIL FROM accepted on it.
C35_MailOnFailedDial ==
    /\ cfg # NilPtr
    /\ cfg.NeedAuth
    /\ ~dialed
    /\ last.op = "Send"
    /\ last.meta.noop = "ok"
    /\ last.meta.dials = 0
    /\ DoneOn("MAIL FROM", 0)
    /\ ~client.authed

\* C36: a To, CopyTo or BlindCopyTo that returns an error leaves the envelope
\* as it was: the recipient list, the header map and the rest of the builder.
\* No address of the call is in the list or in a field on its account, the
\* valid addresses before the refused one included.
C36_FailedCallKeepsEnvelope ==
    [][(IsAddressCall(call') /\ call'.err # Nil) => mail' = mail]_vars

\* C36, its case: CopyTo was given a valid address followed by one that is too
\* long, on an envelope with one recipient; it returned the error and the
\* envelope has that one recipient and no Cc field.
C36_ValidBeforeTooLong ==
    /\ call.op = "CopyTo"
    /\ call.arg = <<"example1@example.com", AddrOfLen(MaxAddrLen + 1)>>
    /\ call.err = ErrAddrTooLong
    /\ mail.recipients = <<"John Doe <john@example.com>">>
    /\ FieldSet(mail, "to")
    /\ ~FieldSet(mail, "cc")

\* The call had MAIL FROM accepted on an open connection.
MailAccepted(w) ==
    \E i \in DOMAIN w : w[i].cmd = "MAIL FROM" /\ w[i].live /\ w[i].ok

\* C37: a Send that returns an error after its MAIL FROM was accepted leaves
\* no mail transaction open on the session of the stored client; and a Send
\* never issues MAIL FROM over the client it found stored (its NOOP was
\* accepted, no new Dial) while the transaction of an earlier Send is open
\* on that session.
C37_NoTransactionLeftOpen ==
    [][last'.op = "Send" =>
          /\ (last'.err \notin {Nil, Panic} /\ MailAccepted(wire')) =>
                 ~client'.txn
          /\ (\E i \in DOMAIN wire' :
                  wire'[i].cmd = "MAIL FROM" /\ wire'[i].gen = 0 /\ wire'[i].live) =>
                 ~client.txn]_vars

\* C37, the divergence: Send returned the no-recipients error after MAIL FROM
\* was accepted, and the transaction is open on the session, which is alive.
C37_TransactionLeftOpen ==
    /\ last.op = "Send"
    /\ last.err = ErrNoRecipients
    /\ MailAccepted(wire)
    /\ ~Has("RSET")
    /\ client.open
    /\ client.txn

\* The call dialed, the connection was opened, and its Dial stored the client
\* of that connection (s.client = c comes before the EHLO).
StoredDialed(w) == \E i \in DOMAIN w : w[i].cmd = "EHLO" /\ w[i].gen = 1

QuitDialed(w) == \E i \in DOMAIN w : w[i].cmd = "QUIT" /\ w[i].gen = 1 /\ w[i].live

Opened(w) == \E i \in DOMAIN w : w[i].cmd = "CONNECT" /\ w[i].ok

\* C38: a Dial, called by the caller or by Send, that returns an error after
\* the connection was opened has ended that connection: when it had stored
\* the client, QUIT was sent on it or its socket is closed; when it had not,
\* the connection is not left open with nothing referring to it.  And a Send
\* whose Dial returned nil has not left the connection of the client it
\* replaced open.
C38_FailedDialEndsConnection ==
    [][(Ready /\ last'.meta.dials > 0 /\ Opened(wire')) =>
          /\ (last'.meta.dialErr \notin {Nil, Panic}) =>
                 IF StoredDialed(wire')
                 THEN QuitDialed(wire') \/ ~client'.open
                 ELSE orphans' = orphans
          /\ (last'.op = "Send" /\ last'.meta.dialErr = Nil) =>
                 orphans' = orphans]_vars

\* C38, the divergence: Dial returned the missing-password error after the
\* EHLO, sent no QUIT, and the connection it opened is open in the client.
C38_ConnectionLeftOpen ==
    /\ last.op = "Dial"
    /\ last.err = ErrNoPassword
    /\ Opened(wire)
    /\ StoredDialed(wire)
    /\ ~Has("QUIT")
    /\ client.open

\* C39: no handshake goroutine is ever blocked on its send to connChan after
\* the Dial that made the channel has returned.  The channel is local to
\* that Dial and nothing else receives from it, so a goroutine counted in
\* stuck stays there in every continuation: it has not terminated and never
\* will.
C39_HandshakeNeverStuck == stuck = 0

\* C39, the divergence: the Dial that lost the race to the timer has
\* returned, the caller goes on, and the goroutine of that Dial has got the
\* result of smtp.NewClient and is blocked on connChan <- err.
C39_SendBlockedForever ==
    /\ cfg # NilPtr
    /\ cfg.ConnectTimeout # 0
    /\ Ready
    /\ racing = 0
    /\ stuck = 1

====
